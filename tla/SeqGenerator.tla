---------------------------- MODULE SeqGenerator ----------------------------
(***************************************************************************)
(* The number generator of common/system/rand.go: nextSeq draws the next   *)
(* sequence number of a day in a READ COMMITTED transaction over the table *)
(* user_seq.  SELECT ... FOR UPDATE locks a row that exists; it locks      *)
(* nothing when there is none, so the first calls of a day can all get to  *)
(* the insert, where the primary key (yymmdd, flag) lets one through.      *)
(***************************************************************************)
EXTENDS Naturals, Sequences

CONSTANTS
  Req,      \* slots for calls of nextSeq in flight
  Key,      \* pairs of a day and a flag
  Capacity, \* how many numbers four digits can print: 10000
  NoRow, Nobody

ASSUME SeqAssumption ==
  /\ Capacity \in Nat /\ Capacity >= 2
  /\ NoRow \notin Nat
  /\ Nobody \notin Req

VARIABLES
  last,    \* last[k] : the committed last_seq of row k, or NoRow
  owner,   \* owner[k] : the call that holds the lock of row k
  req,     \* req[r] : where the call in slot r stands, its key and number
  issued,  \* issued[k] : numbers drawn for k, in the order of the commits
  refused  \* keys for which a call was refused (history)

vars == <<last, owner, req, issued, refused>>

Place == {"idle", "select", "update", "insert", "inserted"}

TypeOK == /\ last \in [Key -> (Nat \ {0}) \cup {NoRow}]
          /\ owner \in [Key -> Req \cup {Nobody}]
          /\ req \in [Req -> [at : Place, key : Key, seq : Nat]]
          /\ issued \in [Key -> Seq(Nat)]
          /\ refused \subseteq Key

Init == /\ last = [k \in Key |-> NoRow]
        /\ owner = [k \in Key |-> Nobody]
        /\ req \in [Req -> [at : {"idle"}, key : Key, seq : {0}]]
        /\ issued = [k \in Key |-> <<>>]
        /\ refused = {}

----------------------------------------------------------------------------
At(r, at) == req[r].at = at
Moved(r, at) == req' = [req EXCEPT ![r].at = at]

UnlockedIgnored(k) == TRUE  \* mutant: a plain SELECT, which waits for no lock

Unlocked(k) == owner[k] = Nobody

FullLate(k) == last[k] > Capacity  \* mutant: a number with five digits is drawn

\* last_seq counts the numbers drawn and is compared with the greatest of them,
\* 9999: the last number is never drawn.
Full(k) == last[k] >= Capacity - 1

ReleasedNot(r) == owner  \* mutant: the transaction is left open

\* Commit and rollback give up the locks of the transaction.
Released(r) == [k \in Key |-> IF owner[k] = r THEN Nobody ELSE owner[k]]

\* Generate calls nextSeq for the day it finds on the clock.
Call(r, k) ==
  /\ At(r, "idle")
  /\ req' = [req EXCEPT ![r] = [at |-> "select", key |-> k, seq |-> 0]]
  /\ UNCHANGED <<last, owner, issued, refused>>

\* SELECT ... FOR UPDATE: the row is there and its number is taken over.
Lock(r) == LET k == req[r].key IN
  /\ At(r, "select") /\ Unlocked(k) /\ last[k] # NoRow /\ ~Full(k)
  /\ owner' = [owner EXCEPT ![k] = r]
  /\ req' = [req EXCEPT ![r] = [@ EXCEPT !.at = "update", !.seq = last[k]]]
  /\ UNCHANGED <<last, issued, refused>>

\* "daily capacity exceeded": the transaction rolls back.
Refuse(r) == LET k == req[r].key IN
  /\ At(r, "select") /\ Unlocked(k) /\ last[k] # NoRow /\ Full(k)
  /\ Moved(r, "idle")
  /\ refused' = refused \cup {k}
  /\ UNCHANGED <<last, owner, issued>>

\* ErrRecordNotFound; a row another call has inserted and not committed
\* would have made the SELECT wait.
NotFound(r) == LET k == req[r].key IN
  /\ At(r, "select") /\ Unlocked(k) /\ last[k] = NoRow
  /\ Moved(r, "insert")
  /\ UNCHANGED <<last, owner, issued, refused>>

\* The primary key: the insert waits for an uncommitted one and fails after
\* a committed one.
Duplicate(r) == LET k == req[r].key IN
  /\ At(r, "insert") /\ Unlocked(k) /\ last[k] # NoRow
  /\ Moved(r, "idle")
  /\ UNCHANGED <<last, owner, issued, refused>>

Insert(r) == LET k == req[r].key IN
  /\ At(r, "insert") /\ Unlocked(k) /\ last[k] = NoRow
  /\ owner' = [owner EXCEPT ![k] = r]
  /\ req' = [req EXCEPT ![r] = [@ EXCEPT !.at = "inserted", !.seq = 0]]
  /\ UNCHANGED <<last, issued, refused>>

\* What the transaction leaves in last_seq.
Stored(r) == IF At(r, "inserted") THEN 1 ELSE last[req[r].key] + 1

\* The update last_seq = last_seq + 1, if the row was there, and the commit.
\* Generate may still fail after it (rand3), which loses the number.
Commit(r) == LET k == req[r].key IN
  /\ At(r, "update") \/ At(r, "inserted")
  /\ last' = [last EXCEPT ![k] = Stored(r)]
  /\ issued' = [issued EXCEPT ![k] = Append(@, req[r].seq)]
  /\ owner' = Released(r)
  /\ Moved(r, "idle")
  /\ UNCHANGED refused

\* An error, a cancelled context, a deadlock victim or a server that stops.
Rollback(r) ==
  /\ ~At(r, "idle")
  /\ owner' = Released(r)
  /\ Moved(r, "idle")
  /\ UNCHANGED <<last, issued, refused>>

Draw(r) == \/ Lock(r) \/ Refuse(r) \/ NotFound(r)
           \/ Duplicate(r) \/ Insert(r) \/ Commit(r)

Next == \E r \in Req : \/ \E k \in Key : Call(r, k)
                       \/ Draw(r)
                       \/ Rollback(r)

Spec == Init /\ [][Next]_vars

\* InnoDB grants a lock to the calls that wait for it in turn, and a call
\* that holds one goes on to its commit or its rollback.
Fairness == \A r \in Req : SF_vars(Draw(r))

FairSpec == Spec /\ Fairness

----------------------------------------------------------------------------
Drawn(k) == IF last[k] = NoRow THEN 0 ELSE last[k]

\* The numbers drawn for a day and flag are 0, 1, 2, ... without a gap or a
\* repetition, and last_seq counts them (nextSeq), also when the first calls
\* of the day race for the insert.
NumbersInOrder == \A k \in Key : issued[k] = [i \in 1..Drawn(k) |-> i - 1]

\* A call is refused for a full day when all numbers but the last are drawn,
\* and only then, although the comments of rand.go (76, 184) count the last one
\* in; a number that is drawn has the four digits Generate prints (rand.go:86).
RefusedWhenFull == \A k \in Key :
  /\ k \in refused => Len(issued[k]) = Capacity - 1
  /\ Len(issued[k]) < Capacity

Dispenser == INSTANCE NumberDispenser

\* The calls of nextSeq, in several steps each and in each other's way, draw
\* as if every call took the next number at once when it commits: lost, late
\* and losing calls leave no gap, and only a full day is refused.
ImplementsDispenser == Dispenser!Spec

\* A call of nextSeq ends, whatever the other calls do with the row lock.
CallsReturn == \A r \in Req : ~At(r, "idle") ~> At(r, "idle")
=============================================================================
