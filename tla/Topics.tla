------------------------------- MODULE Topics -------------------------------
(***************************************************************************)
(* The subscribers of one topic, kept as one versioned KV entry:           *)
(* subscribe, unsubscribe and delete_topic by concurrent callers, and the  *)
(* expansion of the topic when a Message is submitted.  subscribe and      *)
(* unsubscribe read the entry, change their copy, and write it if the      *)
(* version is the one they read, or start over.                            *)
(*                                                                         *)
(* create_kv, update_kv and delete_kv are one statement in the SQL stores  *)
(* and one critical section in memory; update_kv of Redis looks the entry  *)
(* up and then swaps what it found.                                        *)
(***************************************************************************)
EXTENDS Integers, Sequences, Functions

CONSTANTS
  Proc,        \* concurrent callers
  Url,         \* subscriber URLs
  MaxTries,    \* attempts of an update, 64 in the code
  MaxOps,      \* bound: operations that are started
  MaxMessages  \* bound: Messages that are submitted

ASSUME TopicsAssumption ==
  /\ MaxTries \in Nat \ {0}
  /\ MaxOps \in Nat
  /\ MaxMessages \in Nat

VARIABLES
  redis,     \* is the store Redis
  entry,     \* the KV entry of the topic
  proc,      \* the callers
  left,      \* operations that may still be started
  sent,      \* the branch URLs of the submitted Messages
  wanted,    \* history: URLs whose subscription was acknowledged
  writes,    \* history: successful writes and deletes of the entry
  revived    \* history: was a copy of a deleted entry written to a new one

topicVars == <<redis, entry, proc, left, sent, wanted, writes, revived>>

NoEntry == [subs |-> << >>, version |-> 0, life |-> 0]

IdleCaller ==
  [pc |-> "idle", op |-> "none", url |-> "none", copy |-> NoEntry,
   seen |-> NoEntry, tries |-> 0, began |-> 0]

Entry == [subs : Seq(Url), version : Nat, life : Nat]

Caller ==
  [pc : {"idle", "read", "create", "update", "swap", "contended"},
   op : {"none", "subscribe", "unsubscribe"}, url : Url \cup {"none"},
   copy : Entry, seen : Entry, tries : Nat, began : Nat]

TopicsTypeOK ==
  /\ redis \in BOOLEAN
  /\ entry \in Entry
  /\ proc \in [Proc -> Caller]
  /\ left \in Nat
  /\ sent \in Seq(Seq(Url))
  /\ wanted \subseteq Url
  /\ writes \in Nat
  /\ revived \in BOOLEAN

Done(p) == proc' = [proc EXCEPT ![p] = IdleCaller]

(* Mutant of Retry: the first conflict ends the operation.                 *)
RetryNever(p) == proc' = [proc EXCEPT ![p].pc = "contended"]

(* The next of the attempts, or the error that the topic is contended.     *)
Retry(p) ==
  IF proc[p].tries + 1 < MaxTries
  THEN proc' = [proc EXCEPT ![p].pc = "read", ![p].tries = @ + 1]
  ELSE proc' = [proc EXCEPT ![p].pc = "contended"]

-----------------------------------------------------------------------------

(* subscribe and unsubscribe of a valid topic and URL.                     *)
Start(p, op, url) ==
  /\ proc[p].pc = "idle" /\ left > 0
  /\ left' = left - 1
  /\ proc' = [proc EXCEPT ![p] =
                [IdleCaller EXCEPT !.pc = "read", !.op = op, !.url = url,
                             !.began = writes]]
  /\ UNCHANGED <<redis, entry, sent, wanted, writes, revived>>

(* retain of the subscribers that are not at place i.                      *)
Without(subs, i) ==
  [j \in 1..(Len(subs) - 1) |-> IF j < i THEN subs[j] ELSE subs[j + 1]]

(* The subscribers after the operation.  A URL has one place in the list,  *)
(* as SubscribersExact says.                                               *)
Changed(p) ==
  LET subs == proc[p].copy.subs
      place == CHOOSE i \in 1..Len(subs) : subs[i] = proc[p].url
  IN
  IF proc[p].op = "subscribe" THEN Append(subs, proc[p].url)
  ELSE Without(subs, place)

(* get_kv and the checks: a URL that exists, or one to remove that does    *)
(* not, is an error, and a missing topic is created by subscribe.          *)
ReadEntry(p) ==
  LET there == proc[p].url \in Range(entry.subs)
      subscribing == proc[p].op = "subscribe"
  IN
  /\ proc[p].pc = "read"
  /\ \/ /\ subscribing = there
        /\ Done(p)
     \/ /\ subscribing /\ entry = NoEntry
        /\ proc' = [proc EXCEPT ![p].pc = "create", ![p].copy = NoEntry]
     \/ /\ subscribing # there /\ entry # NoEntry
        /\ proc' = [proc EXCEPT ![p].pc = "update", ![p].copy = entry]
  /\ UNCHANGED <<redis, entry, left, sent, wanted, writes, revived>>

(* create_kv, which leaves an entry that is there alone, and delete_kv,    *)
(* which deletes whatever version there is.                                *)
CreateKv(e) == entry = NoEntry /\ entry' = e
DeleteKv == entry # NoEntry /\ entry' = NoEntry

(* subscribe creates the topic, or finds that another caller has.          *)
CreateEntry(p) ==
  /\ proc[p].pc = "create"
  /\ \/ /\ CreateKv([subs |-> <<proc[p].url>>, version |-> 1, life |-> writes + 1])
        /\ wanted' = wanted \cup {proc[p].url}
        /\ writes' = writes + 1
        /\ Done(p)
     \/ /\ entry # NoEntry
        /\ Retry(p)
        /\ UNCHANGED <<entry, wanted, writes>>
  /\ UNCHANGED <<redis, left, sent, revived>>

(* The copy with the next version replaces the entry.                      *)
WriteEntry(p) ==
  /\ entry' = [entry EXCEPT !.subs = Changed(p),
                            !.version = proc[p].copy.version + 1]
  /\ wanted' = IF proc[p].op = "subscribe" THEN wanted \cup {proc[p].url}
               ELSE wanted \ {proc[p].url}
  /\ writes' = writes + 1
  /\ revived' = (revived \/ entry.life # proc[p].copy.life)
  /\ Done(p)

(* Mutant of SameVersion: the version is not compared.                     *)
AnyVersion(p) == entry # NoEntry

SameVersion(p) == entry # NoEntry /\ entry.version = proc[p].copy.version

(* update_kv of the memory and SQL stores.                                 *)
UpdateEntry(p) ==
  /\ proc[p].pc = "update" /\ ~redis
  /\ \/ SameVersion(p) /\ WriteEntry(p)
     \/ ~SameVersion(p) /\ Retry(p) /\ UNCHANGED <<entry, wanted, writes, revived>>
  /\ UNCHANGED <<redis, left, sent>>

(* update_kv of Redis: the lookup that compares the versions ...           *)
LookUpVersion(p) ==
  /\ proc[p].pc = "update" /\ redis
  /\ IF SameVersion(p)
     THEN proc' = [proc EXCEPT ![p].pc = "swap", ![p].seen = entry]
     ELSE Retry(p)
  /\ UNCHANGED <<redis, entry, left, sent, wanted, writes, revived>>

(* ... and the swap of the payload it found.                               *)
SwapEntry(p) ==
  /\ proc[p].pc = "swap"
  /\ \/ entry = proc[p].seen /\ WriteEntry(p)
     \/ /\ entry # proc[p].seen
        /\ Retry(p)
        /\ UNCHANGED <<entry, wanted, writes, revived>>
  /\ UNCHANGED <<redis, left, sent>>

(* delete_topic, which does not look at the subscribers.                   *)
DeleteTopic ==
  /\ DeleteKv
  /\ left > 0
  /\ left' = left - 1
  /\ wanted' = {}
  /\ writes' = writes + 1
  /\ UNCHANGED <<redis, proc, sent, revived>>

(* expand_message_topics in submit(): a missing topic or one without       *)
(* subscribers is refused.                                                 *)
SubmitMessage ==
  /\ entry # NoEntry /\ entry.subs # << >>
  /\ Len(sent) < MaxMessages
  /\ sent' = Append(sent, entry.subs)
  /\ UNCHANGED <<redis, entry, proc, left, wanted, writes, revived>>

-----------------------------------------------------------------------------

TopicsInit ==
  /\ redis \in BOOLEAN
  /\ entry = NoEntry
  /\ proc = [p \in Proc |-> IdleCaller]
  /\ left = MaxOps
  /\ sent = << >>
  /\ wanted = {}
  /\ writes = 0
  /\ revived = FALSE

Step(p) ==
  \/ ReadEntry(p) \/ CreateEntry(p) \/ UpdateEntry(p)
  \/ LookUpVersion(p) \/ SwapEntry(p)

TopicsNext ==
  \/ \E p \in Proc :
       \/ \E op \in {"subscribe", "unsubscribe"}, u \in Url : Start(p, op, u)
       \/ Step(p)
  \/ DeleteTopic \/ SubmitMessage

TopicsSpec == TopicsInit /\ [][TopicsNext]_topicVars

-----------------------------------------------------------------------------
(* Properties.                                                             *)

(* The topic has exactly the subscribers whose subscribe returned Ok and   *)
(* that were not removed since, each once, and a Message is expanded to no *)
(* URL twice, however the callers interleave; unless the topic was deleted *)
(* and created again under an update, whose copy has the same version.     *)
SubscribersExact ==
  /\ ~revived => Range(entry.subs) = wanted
  /\ \A subs \in {entry.subs} \cup Range(sent) :
       \A i, j \in DOMAIN subs : i # j => subs[i] # subs[j]

(* subscribe and unsubscribe only give up as contended after as many       *)
(* changes by others as they have attempts.                                *)
ContentionHonest ==
  \A p \in Proc :
    proc[p].pc = "contended" => writes - proc[p].began >= MaxTries

-----------------------------------------------------------------------------
(* The inductive invariants behind the properties above.                   *)

(* What a caller has of the entry, and compares with it when it writes.    *)
Snapshot(p) == IF proc[p].pc = "swap" THEN proc[p].seen ELSE proc[p].copy

(* As many changes happened as the caller has lost attempts, and one more  *)
(* if the entry is not what it read.                                       *)
MissedChanges(p) ==
  LET missed == writes - proc[p].began IN
  /\ proc[p].pc # "idle" => missed >= proc[p].tries
  /\ proc[p].pc \in {"create", "update", "swap"} =>
       entry = Snapshot(p) \/ missed > proc[p].tries
  /\ proc[p].pc = "create" => proc[p].copy = NoEntry
  /\ proc[p].pc = "contended" => missed >= MaxTries

ContentionInv == \A p \in Proc : MissedChanges(p)

Distinct(subs) == \A i, j \in 1..Len(subs) : i # j => subs[i] # subs[j]

(* The copy e of the entry is from another life of the topic, or older, or *)
(* the entry as it is.                                                     *)
Versioned(e) ==
  e.life = entry.life => e.version < entry.version \/ e = entry

(* The copy is fit for the operation, and the change it makes is the one   *)
(* that was asked for.                                                     *)
CopyFits(p) ==
  proc[p].pc \in {"update", "swap"} =>
    /\ Distinct(proc[p].copy.subs)
    /\ proc[p].url \in Range(proc[p].copy.subs)
         <=> proc[p].op = "unsubscribe"
    /\ proc[p].copy.life \in 1..writes
    /\ Versioned(proc[p].copy)
    /\ proc[p].pc = "swap" =>
         /\ proc[p].seen # NoEntry
         /\ proc[p].seen.version = proc[p].copy.version

(* Every life of the topic has a number of its own, and a version in it    *)
(* one content.                                                            *)
SubscribersInv ==
  /\ Distinct(entry.subs)
  /\ \A k \in 1..Len(sent) : Distinct(sent[k])
  /\ ~revived => Range(entry.subs) = wanted
  /\ entry.life <= writes
  /\ entry # NoEntry => entry.life > 0
  /\ \A p \in Proc :
       /\ proc[p].pc # "idle" =>
            proc[p].op \in {"subscribe", "unsubscribe"} /\ proc[p].url \in Url
       /\ CopyFits(p)

=============================================================================
