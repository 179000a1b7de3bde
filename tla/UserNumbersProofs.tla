------------------------- MODULE UserNumbersProofs -------------------------
(***************************************************************************)
(* The numbers of a day, and that no two printed ones are alike, for any   *)
(* number of calls, days, secrets and random digits and any capacity.      *)
(***************************************************************************)
EXTENDS UserNumbers, FiniteSetTheorems, TLAPS

\* A call that has its number holds the row lock, and the number is still
\* what the committed row says.
LockInv == \A r \in Req : LET k == req[r].key IN
  /\ At(r, "update") => /\ owner[k] = r
                        /\ last[k] \in Nat
                        /\ req[r].seq = last[k]
                        /\ last[k] < Capacity - 1
  /\ At(r, "inserted") => owner[k] = r /\ last[k] = NoRow /\ req[r].seq = 0

\* last_seq stays in the range of the check, and a full row stays full.
BoundInv == \A k \in Key :
  /\ last[k] \in Nat => last[k] <= Capacity - 1
  /\ k \in refused => last[k] = Capacity - 1

SeqInv == TypeOK /\ LockInv /\ BoundInv /\ NumbersInOrder

LEMMA InitSeqInv == Init => SeqInv
<1> SUFFICES ASSUME Init PROVE SeqInv OBVIOUS
<1>1. TypeOK BY DEF Init, TypeOK, Place
<1>2. LockInv BY DEF Init, LockInv, At
<1>3. BoundInv BY SeqAssumption DEF Init, BoundInv
<1>4. NumbersInOrder BY DEF Init, NumbersInOrder, Drawn
<1>5. QED BY <1>1, <1>2, <1>3, <1>4 DEF SeqInv

\* The step that matters: what Commit appends is the next number.
LEMMA CommitKeeps ==
  ASSUME SeqInv, NEW r \in Req, Commit(r) PROVE SeqInv'
<1> USE SeqAssumption
<1>k. PICK k \in Key : k = req[r].key BY DEF SeqInv, TypeOK
<1>0. k = req[r].key /\ req[r].seq \in Nat BY <1>k DEF SeqInv, TypeOK
<1>1. Drawn(k) = req[r].seq /\ last'[k] = req[r].seq + 1
      /\ req[r].seq + 1 <= Capacity - 1 /\ owner[k] = r
  <2>1. CASE At(r, "update")
    BY <1>0, <2>1 DEF Commit, Stored, At, Drawn, SeqInv, LockInv, TypeOK
  <2>2. CASE At(r, "inserted")
    BY <1>0, <2>2 DEF Commit, Stored, At, Drawn, SeqInv, LockInv, TypeOK
  <2>3. QED BY <2>1, <2>2 DEF Commit
<1>2. TypeOK'
  <2>1. last' \in [Key -> (Nat \ {0}) \cup {NoRow}]
    BY <1>0, <1>1 DEF Commit, SeqInv, TypeOK
  <2>2. owner' \in [Key -> Req \cup {Nobody}]
    BY DEF Commit, Released, SeqInv, TypeOK
  <2>3. req' \in [Req -> [at : Place, key : Key, seq : Nat]]
    BY DEF Commit, Moved, Place, SeqInv, TypeOK
  <2>4. issued' \in [Key -> Seq(Nat)] BY <1>0 DEF Commit, SeqInv, TypeOK
  <2>5. QED BY <2>1, <2>2, <2>3, <2>4 DEF Commit, SeqInv, TypeOK
<1>3. LockInv'
  <2> SUFFICES ASSUME NEW s \in Req
               PROVE  LET j == req'[s].key IN
                 /\ At(s, "update")' => /\ owner'[j] = s /\ last'[j] \in Nat
                                        /\ req'[s].seq = last'[j]
                                        /\ last'[j] < Capacity - 1
                 /\ At(s, "inserted")' => /\ owner'[j] = s /\ last'[j] = NoRow
                                          /\ req'[s].seq = 0
    BY DEF LockInv
  <2>1. CASE s = r BY <2>1 DEF Commit, Moved, At, SeqInv, TypeOK
  <2>2. CASE s # r
    <3>1. req'[s] = req[s] BY <2>2 DEF Commit, Moved, SeqInv, TypeOK
    <3>2. req[s].key \in Key BY DEF SeqInv, TypeOK
    <3>3. At(s, "update") \/ At(s, "inserted") => req[s].key # k
      BY <1>1, <2>2 DEF SeqInv, LockInv
    <3>4. req[s].key # k => last'[req[s].key] = last[req[s].key]
      BY <1>0, <3>2 DEF Commit, SeqInv, TypeOK
    <3>5. owner[req[s].key] = s => owner'[req[s].key] = s
      BY <2>2, <3>2 DEF Commit, Released
    <3>6. QED BY <3>1, <3>3, <3>4, <3>5 DEF At, SeqInv, LockInv
  <2>3. QED BY <2>1, <2>2
<1>4. BoundInv'
  BY <1>0, <1>1 DEF Commit, BoundInv, SeqInv, TypeOK, Drawn
<1>5. NumbersInOrder'
  <2> SUFFICES ASSUME NEW j \in Key
               PROVE  issued'[j] = [i \in 1..Drawn(j)' |-> i - 1]
    BY DEF NumbersInOrder
  <2>1. CASE j = k
    <3>1. issued[k] = [i \in 1..Drawn(k) |-> i - 1]
      BY <1>0 DEF SeqInv, NumbersInOrder
    <3>2. issued'[k] = Append(issued[k], req[r].seq)
      BY <1>0 DEF Commit, SeqInv, TypeOK
    <3>3. issued'[k] = [i \in 1..(req[r].seq + 1) |-> i - 1]
      BY <1>0, <1>1, <3>1, <3>2 DEF SeqInv, TypeOK
    <3>4. Drawn(k)' = req[r].seq + 1 BY <1>0, <1>1 DEF Drawn
    <3>5. QED BY <2>1, <3>3, <3>4
  <2>2. CASE j # k
    BY <1>0, <2>2 DEF Commit, Drawn, SeqInv, NumbersInOrder, TypeOK
  <2>3. QED BY <2>1, <2>2
<1>6. QED BY <1>2, <1>3, <1>4, <1>5 DEF SeqInv

\* The other steps leave last_seq and the numbers alone.
LEMMA OthersKeep ==
  ASSUME SeqInv, [Next]_vars, ~\E r \in Req : Commit(r) PROVE SeqInv'
<1> USE SeqAssumption
<1>0. TypeOK /\ LockInv /\ BoundInv /\ NumbersInOrder BY DEF SeqInv
<1>1. ASSUME NEW r \in Req, NEW k \in Key, Call(r, k) PROVE TypeOK' /\ LockInv' /\ BoundInv'
  BY <1>0, <1>1 DEF Call, TypeOK, LockInv, BoundInv, At, Place
<1>2. ASSUME NEW r \in Req, Lock(r) PROVE TypeOK' /\ LockInv' /\ BoundInv'
  <2>0. req[r].key \in Key /\ last[req[r].key] \in Nat BY <1>0, <1>2 DEF TypeOK, Lock
  <2>1. TypeOK' BY <1>0, <1>2, <2>0 DEF Lock, TypeOK, Place
  <2>2. BoundInv' BY <1>0, <1>2 DEF Lock, BoundInv
  <2>3. LockInv'
    BY <1>0, <1>2, <2>0 DEF Lock, TypeOK, LockInv, BoundInv, At, Unlocked, Full
  <2>4. QED BY <2>1, <2>2, <2>3
<1>3. ASSUME NEW r \in Req, Refuse(r) PROVE TypeOK' /\ LockInv' /\ BoundInv'
  <2>0. req[r].key \in Key /\ last[req[r].key] \in Nat BY <1>0, <1>3 DEF TypeOK, Refuse
  <2>1. TypeOK' BY <1>0, <1>3, <2>0 DEF Refuse, Moved, TypeOK, Place
  <2>2. BoundInv' BY <1>0, <1>3, <2>0 DEF Refuse, BoundInv, Full
  <2>3. LockInv' BY <1>0, <1>3 DEF Refuse, Moved, TypeOK, LockInv, At
  <2>4. QED BY <2>1, <2>2, <2>3
<1>4. ASSUME NEW r \in Req, NotFound(r) PROVE TypeOK' /\ LockInv' /\ BoundInv'
  <2>1. TypeOK' BY <1>0, <1>4 DEF NotFound, Moved, TypeOK, Place
  <2>2. BoundInv' BY <1>0, <1>4 DEF NotFound, BoundInv
  <2>3. LockInv' BY <1>0, <1>4 DEF NotFound, Moved, TypeOK, LockInv, At
  <2>4. QED BY <2>1, <2>2, <2>3
<1>5. ASSUME NEW r \in Req, Duplicate(r) PROVE TypeOK' /\ LockInv' /\ BoundInv'
  <2>1. TypeOK' BY <1>0, <1>5 DEF Duplicate, Moved, TypeOK, Place
  <2>2. BoundInv' BY <1>0, <1>5 DEF Duplicate, BoundInv
  <2>3. LockInv' BY <1>0, <1>5 DEF Duplicate, Moved, TypeOK, LockInv, At
  <2>4. QED BY <2>1, <2>2, <2>3
<1>6. ASSUME NEW r \in Req, Insert(r) PROVE TypeOK' /\ LockInv' /\ BoundInv'
  <2>0. req[r].key \in Key BY <1>0 DEF TypeOK
  <2>1. TypeOK' BY <1>0, <1>6, <2>0 DEF Insert, TypeOK, Place
  <2>2. BoundInv' BY <1>0, <1>6 DEF Insert, BoundInv
  <2>3. LockInv' BY <1>0, <1>6, <2>0 DEF Insert, TypeOK, LockInv, At, Unlocked
  <2>4. QED BY <2>1, <2>2, <2>3
<1>7. ASSUME NEW r \in Req, Rollback(r) PROVE TypeOK' /\ LockInv' /\ BoundInv'
  <2>1. TypeOK'
    BY <1>0, <1>7 DEF Rollback, Released, Moved, TypeOK, Place
  <2>2. BoundInv' BY <1>0, <1>7 DEF Rollback, BoundInv
  <2>3. LockInv'
    BY <1>0, <1>7 DEF Rollback, Released, Moved, TypeOK, LockInv, At
  <2>4. QED BY <2>1, <2>2, <2>3
<1>8. CASE UNCHANGED vars
  BY <1>0, <1>8 DEF vars, SeqInv, TypeOK, LockInv, BoundInv, NumbersInOrder, At, Drawn
<1>9. CASE Next
  <2>1. UNCHANGED <<last, issued>>
    BY <1>9 DEF Next, Draw, Call, Lock, Refuse, NotFound, Duplicate, Insert, Rollback
  <2>2. NumbersInOrder' BY <1>0, <2>1 DEF NumbersInOrder, Drawn
  <2>3. TypeOK' /\ LockInv' /\ BoundInv'
    BY <1>9, <1>1, <1>2, <1>3, <1>4, <1>5, <1>6, <1>7 DEF Next, Draw
  <2>4. QED BY <2>2, <2>3 DEF SeqInv
<1>10. QED BY <1>8, <1>9

LEMMA SeqInvHolds == Spec => []SeqInv
<1>1. SeqInv /\ [Next]_vars => SeqInv' BY CommitKeeps, OthersKeep
<1>2. QED BY InitSeqInv, <1>1, PTL DEF Spec

\* The row, the locks and the calls keep their types (nextSeq).
THEOREM SeqTypeCorrect == Spec => []TypeOK
<1>1. SeqInv => TypeOK BY DEF SeqInv
<1>2. QED BY SeqInvHolds, <1>1, PTL

\* For any number of concurrent calls nextSeq draws 0, 1, 2, ... for a day
\* and flag, each once and in the order of the commits.
THEOREM NumbersAreInOrder == Spec => []NumbersInOrder
<1>1. SeqInv => NumbersInOrder BY DEF SeqInv
<1>2. QED BY SeqInvHolds, <1>1, PTL

\* For any capacity, a day is refused exactly when all its numbers but the last
\* are drawn, and the last one never is (rand.go:86).
THEOREM RefusalIsFull == Spec => []RefusedWhenFull
<1>1. SeqInv => RefusedWhenFull
  <2> SUFFICES ASSUME SeqInv, NEW k \in Key
               PROVE  /\ k \in refused => Len(issued[k]) = Capacity - 1
                      /\ Len(issued[k]) < Capacity
    BY DEF RefusedWhenFull
  <2>1. Drawn(k) \in Nat BY DEF SeqInv, TypeOK, Drawn
  <2>2. issued[k] = [i \in 1..Drawn(k) |-> i - 1] BY DEF SeqInv, NumbersInOrder
  <2>3. issued[k] \in Seq(Nat) BY DEF SeqInv, TypeOK
  <2>4. Len(issued[k]) = Drawn(k) BY <2>1, <2>2, <2>3
  <2>5. QED BY <2>4, SeqAssumption DEF SeqInv, BoundInv, Drawn, TypeOK
<1>2. QED BY SeqInvHolds, <1>1, PTL

----------------------------------------------------------------------------
\* A draw of NumberDispenser happens at the commit, a refusal at the read;
\* every other step is a stutter.

LEMMA CommitDraws ==
  ASSUME SeqInv, NEW r \in Req, Commit(r)
  PROVE  \E k \in Key : Dispenser!Draw(k)
<1> USE SeqAssumption
<1> DEFINE k == req[r].key
<1>1. k \in Key /\ issued \in [Key -> Seq(Nat)] BY DEF SeqInv, TypeOK
<1>2. req[r].seq = Drawn(k) /\ Drawn(k) \in Nat /\ Drawn(k) < Capacity - 1
  <2>1. last[k] \in Nat => Drawn(k) = last[k] BY DEF Drawn
  <2>2. last[k] = NoRow => Drawn(k) = 0 BY DEF Drawn
  <2>3. (At(r, "update") => /\ last[k] \in Nat /\ req[r].seq = last[k]
                            /\ last[k] < Capacity - 1)
        /\ (At(r, "inserted") => last[k] = NoRow /\ req[r].seq = 0)
    BY DEF SeqInv, LockInv
  <2> QED BY <2>1, <2>2, <2>3 DEF Commit
<1>3. Len(issued[k]) = Drawn(k)
  <2>1. issued[k] = [i \in 1..Drawn(k) |-> i - 1] BY <1>1 DEF SeqInv, NumbersInOrder
  <2> QED BY <1>1, <1>2, <2>1
<1>4. /\ issued' = [issued EXCEPT ![k] = Append(@, req[r].seq)]
      /\ UNCHANGED refused
  BY DEF Commit
<1>5. issued' = [issued EXCEPT ![k] = Append(@, Len(@))]
  BY <1>2, <1>3, <1>4
<1>6. Dispenser!Draw(k) BY <1>2, <1>3, <1>4, <1>5 DEF Dispenser!Draw, Dispenser!Left
<1> QED BY <1>1, <1>6

LEMMA RefuseRefuses ==
  ASSUME SeqInv, NEW r \in Req, Refuse(r)
  PROVE  \E k \in Key : Dispenser!Refuse(k)
<1> USE SeqAssumption
<1> DEFINE k == req[r].key
<1>1. k \in Key /\ issued \in [Key -> Seq(Nat)] /\ last[k] \in Nat
  BY DEF SeqInv, TypeOK, Refuse
<1>2. Drawn(k) = Capacity - 1
  BY <1>1 DEF Refuse, Full, SeqInv, BoundInv, Drawn
<1>3. issued[k] = [i \in 1..Drawn(k) |-> i - 1] BY <1>1 DEF SeqInv, NumbersInOrder
<1>4. Len(issued[k]) = Capacity - 1 BY <1>1, <1>2, <1>3
<1>5. Dispenser!Refuse(k)
  BY <1>4 DEF Refuse, Dispenser!Refuse, Dispenser!Left
<1> QED BY <1>1, <1>5

\* The calls of nextSeq, any number of them and of days at a time, draw as
\* from a counter that is read and advanced in one step (rand.go:77).
THEOREM SeqImplementsDispenser == Spec => ImplementsDispenser
<1>1. Init => Dispenser!Init BY DEF Init, Dispenser!Init
<1>2. ASSUME SeqInv, [Next]_vars PROVE [Dispenser!Next]_(Dispenser!vars)
  <2>1. ASSUME NEW r \in Req, Commit(r) PROVE Dispenser!Next
    BY <1>2, <2>1, CommitDraws DEF Dispenser!Next
  <2>2. ASSUME NEW r \in Req, Refuse(r) PROVE Dispenser!Next
    BY <1>2, <2>2, RefuseRefuses DEF Dispenser!Next
  <2>3. ASSUME NEW r \in Req,
               \/ \E k \in Key : Call(r, k)
               \/ Lock(r) \/ NotFound(r) \/ Duplicate(r) \/ Insert(r) \/ Rollback(r)
        PROVE  UNCHANGED Dispenser!vars
    BY <2>3 DEF Call, Lock, NotFound, Duplicate, Insert, Rollback, Dispenser!vars
  <2>4. CASE UNCHANGED vars BY <2>4 DEF vars, Dispenser!vars
  <2>5. CASE Next BY <2>1, <2>2, <2>3, <2>5 DEF Next, Draw
  <2> QED BY <1>2, <2>4, <2>5
<1> QED BY SeqInvHolds, <1>1, <1>2, PTL DEF Spec, ImplementsDispenser, Dispenser!Spec

----------------------------------------------------------------------------
\* The shuffle of digits loses none.

Shuffle == {p \in [Digit -> Digit] : \A d, e \in Digit : p[d] = p[e] => d = e}

LEMMA SwappedShuffles ==
  ASSUME NEW p \in Shuffle, NEW i \in Digit, NEW j \in Digit
  PROVE  Swapped(p, i, j) \in Shuffle
<1> DEFINE q == Swapped(p, i, j)
<1> p \in [Digit -> Digit] BY DEF Shuffle
<1>1. /\ q \in [Digit -> Digit]
      /\ \A d \in Digit : q[d] = IF d = j THEN p[i] ELSE IF d = i THEN p[j] ELSE p[d]
  BY DEF Swapped
<1> HIDE DEF q
<1>2. \A d, e \in Digit : q[d] = q[e] => d = e
  BY <1>1 DEF Shuffle
<1> QED BY <1>1, <1>2 DEF Shuffle, q

\* The loop of buildDigitPerm does what it says.
LEMMA PermSteps ==
  ASSUME NEW s
  PROVE  \E f : /\ DigitPerm(s) = f[1]
                /\ f = [i \in 1..10 |->
                         IF i = 10 THEN [d \in Digit |-> d]
                         ELSE Swapped(f[i + 1], i, s.seed[10 - i] % (i + 1))]
<1> DEFINE Loop(f) == [i \in 1..10 |->
             IF i = 10 THEN [d \in Digit |-> d]
             ELSE Swapped(f[i + 1], i, s.seed[10 - i] % (i + 1))]
           after == CHOOSE f : f = Loop(f)
           Turn(p, i) == Swapped(p, i, s.seed[10 - i] % (i + 1))
<1>1. \E f : f = Loop(f)
  <2> DEFINE p10 == [d \in Digit |-> d]
             p9 == Turn(p10, 9)
             p8 == Turn(p9, 8)
             p7 == Turn(p8, 7)
             p6 == Turn(p7, 6)
             p5 == Turn(p6, 5)
             p4 == Turn(p5, 4)
             p3 == Turn(p4, 3)
             p2 == Turn(p3, 2)
             p1 == Turn(p2, 1)
             f == [i \in 1..10 |-> CASE i = 1 -> p1 [] i = 2 -> p2 [] i = 3 -> p3
                                     [] i = 4 -> p4 [] i = 5 -> p5 [] i = 6 -> p6
                                     [] i = 7 -> p7 [] i = 8 -> p8 [] i = 9 -> p9
                                     [] OTHER -> p10]
  <2>1. /\ p9 = Turn(p10, 9) /\ p8 = Turn(p9, 8) /\ p7 = Turn(p8, 7)
        /\ p6 = Turn(p7, 6) /\ p5 = Turn(p6, 5) /\ p4 = Turn(p5, 4)
        /\ p3 = Turn(p4, 3) /\ p2 = Turn(p3, 2) /\ p1 = Turn(p2, 1)
    OBVIOUS
  <2> HIDE DEF p1, p2, p3, p4, p5, p6, p7, p8, p9
  <2>2. ASSUME NEW i \in 1..9 PROVE f[i] = Turn(f[i + 1], i)
    <3> HIDE DEF Turn
    <3>1. /\ f[1] = p1 /\ f[2] = p2 /\ f[3] = p3 /\ f[4] = p4 /\ f[5] = p5
          /\ f[6] = p6 /\ f[7] = p7 /\ f[8] = p8 /\ f[9] = p9 /\ f[10] = p10
      OBVIOUS
    <3> HIDE DEF f
    <3>2. i \in {1, 2, 3, 4, 5, 6, 7, 8, 9} OBVIOUS
    <3> QED BY <2>1, <3>1, <3>2
  <2>3. f[10] = p10 OBVIOUS
  <2>4. f = [i \in 1..10 |-> f[i]] OBVIOUS
  <2> HIDE DEF f, p10
  <2>5. \A i \in 1..10 : f[i] = Loop(f)[i]
    BY <2>2, <2>3 DEF p10
  <2> QED BY <2>4, <2>5
<1>2. after = Loop(after)
  <2> HIDE DEF Loop
  <2> QED BY <1>1
<1>3. DigitPerm(s) = after[1] BY DEF DigitPerm
<1> QED BY <1>2, <1>3

LEMMA DigitPermShuffles ==
  ASSUME NEW s \in Secret
  PROVE  DigitPerm(s) \in Shuffle
<1>1. PICK f : /\ DigitPerm(s) = f[1]
               /\ f = [i \in 1..10 |->
                        IF i = 10 THEN [d \in Digit |-> d]
                        ELSE Swapped(f[i + 1], i, s.seed[10 - i] % (i + 1))]
  BY PermSteps
<1>2. [d \in Digit |-> d] \in Shuffle BY DEF Shuffle
<1>3. f[10] \in Shuffle BY <1>1, <1>2
<1>4. ASSUME NEW i \in 1..9, f[i + 1] \in Shuffle PROVE f[i] \in Shuffle
  <2>1. s.seed[10 - i] \in 0..255 BY NumbersAssumption
  <2>2. i \in Digit /\ s.seed[10 - i] % (i + 1) \in Digit BY <2>1 DEF Digit
  <2>3. f[i] = Swapped(f[i + 1], i, s.seed[10 - i] % (i + 1)) BY <1>1
  <2> QED BY <1>4, <2>2, <2>3, SwappedShuffles
<1>5. f[9] \in Shuffle BY <1>3, <1>4
<1>6. f[8] \in Shuffle BY <1>5, <1>4
<1>7. f[7] \in Shuffle BY <1>6, <1>4
<1>8. f[6] \in Shuffle BY <1>7, <1>4
<1>9. f[5] \in Shuffle BY <1>8, <1>4
<1>10. f[4] \in Shuffle BY <1>9, <1>4
<1>11. f[3] \in Shuffle BY <1>10, <1>4
<1>12. f[2] \in Shuffle BY <1>11, <1>4
<1>13. f[1] \in Shuffle BY <1>12, <1>4
<1> QED BY <1>1, <1>13

\* Two days look different in their disguise: shuffle and rotation lose
\* nothing.
LEMMA ObfuscatedType ==
  ASSUME NEW s \in Secret, NEW day \in [1..6 -> Digit]
  PROVE  /\ Obfuscated(day, s) \in [1..6 -> Digit]
         /\ \A i \in 1..6 : Obfuscated(day, s)[i] =
              DigitPerm(s)[day[((i - 1 - (s.rot % 6) + 6) % 6) + 1]]
<1>1. DigitPerm(s) \in [Digit -> Digit] BY DigitPermShuffles DEF Shuffle
<1>2. s.rot % 6 \in 0..5 BY NumbersAssumption
<1> DEFINE rot == s.rot % 6
<1> HIDE DEF rot
<1>3. \A i \in 1..6 : ((i - 1 - rot + 6) % 6) + 1 \in 1..6 BY <1>2 DEF rot
<1> QED BY <1>1, <1>3 DEF Obfuscated, rot

LEMMA ObfuscatedApart ==
  ASSUME NEW s \in Secret, NEW a \in [1..6 -> Digit], NEW b \in [1..6 -> Digit], a # b
  PROVE  \E i \in 1..6 : Obfuscated(a, s)[i] # Obfuscated(b, s)[i]
<1>1. PICK j \in 1..6 : a[j] # b[j] OBVIOUS
<1> DEFINE rot == s.rot % 6
           i == ((j - 1 + rot) % 6) + 1
<1>2. rot \in 0..5 BY NumbersAssumption
<1> HIDE DEF rot
<1>3. i \in 1..6 /\ ((i - 1 - rot + 6) % 6) + 1 = j
  <2>1. rot \in {0, 1, 2, 3, 4, 5} /\ j \in {1, 2, 3, 4, 5, 6} BY <1>2
  <2> QED BY <2>1
<1> HIDE DEF i
<1>4. /\ Obfuscated(a, s)[i] = DigitPerm(s)[a[j]]
      /\ Obfuscated(b, s)[i] = DigitPerm(s)[b[j]]
  BY <1>3, ObfuscatedType DEF rot
<1>5. DigitPerm(s)[a[j]] # DigitPerm(s)[b[j]]
  BY <1>1, DigitPermShuffles DEF Shuffle
<1> QED BY <1>3, <1>4, <1>5

----------------------------------------------------------------------------
LEMMA Remainder ==
  ASSUME NEW a \in Nat, NEW b \in Nat, 10 * b <= a, a < 10 * b + 10
  PROVE  a % 10 = a - 10 * b
<1>1. a = 10 * (a \div 10) + (a % 10) /\ a % 10 \in 0..9 /\ a \div 10 \in Int
  OBVIOUS
<1>2. a \div 10 = b BY <1>1
<1> QED BY <1>1, <1>2

Printable == 0..9999

Places(x) ==
  /\ x \div 1000 \in Digit /\ (x \div 100) % 10 \in Digit
  /\ (x \div 10) % 10 \in Digit /\ x % 10 \in Digit
  /\ x = 1000 * (x \div 1000) + 100 * ((x \div 100) % 10)
         + 10 * ((x \div 10) % 10) + (x % 10)

LEMMA DecimalPlaces ==
  ASSUME NEW x \in Printable
  PROVE  Places(x)
<1> DEFINE u == x \div 10
           v == x \div 100
           w == x \div 1000
<1>0. x \in 0..9999 BY DEF Printable
<1>1. /\ u \in 0..999 /\ v \in 0..99 /\ w \in 0..9
      /\ 10 * u <= x /\ x < 10 * u + 10
      /\ 100 * v <= x /\ x < 100 * v + 100
      /\ 1000 * w <= x /\ x < 1000 * w + 1000
  BY <1>0
<1> HIDE DEF u, v, w
<1>2. x % 10 = x - 10 * u BY <1>0, <1>1 DEF u
<1>3. 10 * v <= u /\ u < 10 * v + 10 BY <1>0, <1>1
<1>4. u % 10 = u - 10 * v
  <2>1. u \in Nat /\ v \in Nat BY <1>1
  <2> QED BY <2>1, <1>3, Remainder
<1>5. 10 * w <= v /\ v < 10 * w + 10 BY <1>0, <1>1
<1>6. v % 10 = v - 10 * w
  <2>1. v \in Nat /\ w \in Nat BY <1>1
  <2> QED BY <2>1, <1>5, Remainder
<1>7. /\ w \in 0..9 /\ v % 10 \in 0..9 /\ u % 10 \in 0..9 /\ x % 10 \in 0..9
  BY <1>0, <1>1, <1>2, <1>3, <1>4, <1>5, <1>6
<1>8. x = 1000 * w + 100 * (v % 10) + 10 * (u % 10) + (x % 10)
  BY <1>0, <1>1, <1>2, <1>4, <1>6
<1> QED BY <1>7, <1>8 DEF Places, Digit, u, v, w

LEMMA FourDigitsType ==
  ASSUME NEW n \in Printable
  PROVE  FourDigits(n) \in [1..4 -> Digit]
<1> DEFINE f == FourDigits(n)
<1>1. DOMAIN f = 1..4 /\ f = [i \in 1..4 |-> f[i]] BY DEF FourDigits
<1>3. Places(n) BY DecimalPlaces
<1>4. f[1] \in Digit /\ f[2] \in Digit /\ f[3] \in Digit /\ f[4] \in Digit
  BY <1>3 DEF FourDigits, Places
<1> HIDE DEF f
<1>2. \A i \in 1..4 : i \in {1, 2, 3, 4} OBVIOUS
<1> QED BY <1>1, <1>4, <1>2 DEF f

LEMMA FourDigitsApart ==
  ASSUME NEW n \in Printable, NEW m \in Printable,
         \A i \in 1..4 : FourDigits(n)[i] = FourDigits(m)[i]
  PROVE  n = m
<1>1. /\ FourDigits(n)[1] = FourDigits(m)[1] /\ FourDigits(n)[2] = FourDigits(m)[2]
      /\ FourDigits(n)[3] = FourDigits(m)[3] /\ FourDigits(n)[4] = FourDigits(m)[4]
  OBVIOUS
<1>2. /\ n \div 1000 = m \div 1000 /\ (n \div 100) % 10 = (m \div 100) % 10
      /\ (n \div 10) % 10 = (m \div 10) % 10 /\ n % 10 = m % 10
  BY <1>1 DEF FourDigits
<1>3. Places(n) /\ Places(m) BY DecimalPlaces
<1> QED BY <1>2, <1>3 DEF Places, Printable

----------------------------------------------------------------------------
\* The Luhn digit of two bodies that differ in one digit differs.

Weight(num, i) == IF (Len(num) - i) % 2 = 0 THEN Doubled(num[i]) ELSE num[i]

ToTen(x) == (10 - (x % 10)) % 10

\* The loop of luhnDigit adds up what it should.
LEMMA LuhnSum ==
  ASSUME NEW num \in Seq(Digit), Len(num) = 14
  PROVE  \E sum : /\ sum[0] = 0
                  /\ \A i \in 1..14 : sum[i] = sum[i - 1] + Weight(num, i)
                  /\ LuhnDigit(num) = ToTen(sum[14])
<1> DEFINE weighted == [i \in DOMAIN num |->
                         IF (Len(num) - i) % 2 = 0 THEN Doubled(num[i]) ELSE num[i]]
           Loop(f) == [i \in 0..Len(num) |-> IF i = 0 THEN 0 ELSE f[i - 1] + weighted[i]]
           sum == CHOOSE f : f = Loop(f)
           w(i) == weighted[i]
<1>1. \E f : f = Loop(f)
  <2> DEFINE s1 == 0 + w(1)
             s2 == s1 + w(2)
             s3 == s2 + w(3)
             s4 == s3 + w(4)
             s5 == s4 + w(5)
             s6 == s5 + w(6)
             s7 == s6 + w(7)
             s8 == s7 + w(8)
             s9 == s8 + w(9)
             s10 == s9 + w(10)
             s11 == s10 + w(11)
             s12 == s11 + w(12)
             s13 == s12 + w(13)
             s14 == s13 + w(14)
             f == [i \in 0..14 |->
                    CASE i = 0 -> 0 [] i = 1 -> s1 [] i = 2 -> s2 [] i = 3 -> s3
                      [] i = 4 -> s4 [] i = 5 -> s5 [] i = 6 -> s6 [] i = 7 -> s7
                      [] i = 8 -> s8 [] i = 9 -> s9 [] i = 10 -> s10 [] i = 11 -> s11
                      [] i = 12 -> s12 [] i = 13 -> s13 [] OTHER -> s14]
  <2>1. /\ s1 = 0 + w(1) /\ s2 = s1 + w(2) /\ s3 = s2 + w(3) /\ s4 = s3 + w(4)
        /\ s5 = s4 + w(5) /\ s6 = s5 + w(6) /\ s7 = s6 + w(7) /\ s8 = s7 + w(8)
        /\ s9 = s8 + w(9) /\ s10 = s9 + w(10) /\ s11 = s10 + w(11)
        /\ s12 = s11 + w(12) /\ s13 = s12 + w(13) /\ s14 = s13 + w(14)
    OBVIOUS
  <2> HIDE DEF s1, s2, s3, s4, s5, s6, s7, s8, s9, s10, s11, s12, s13, s14, w
  <2>2. /\ f[0] = 0 /\ f[1] = s1 /\ f[2] = s2 /\ f[3] = s3 /\ f[4] = s4 /\ f[5] = s5
        /\ f[6] = s6 /\ f[7] = s7 /\ f[8] = s8 /\ f[9] = s9 /\ f[10] = s10
        /\ f[11] = s11 /\ f[12] = s12 /\ f[13] = s13 /\ f[14] = s14
    OBVIOUS
  <2>3. f = [i \in 0..14 |-> f[i]] OBVIOUS
  <2> HIDE DEF f
  <2>4. ASSUME NEW i \in 1..14 PROVE f[i] = f[i - 1] + w(i)
    <3> DEFINE Added(j, k) == f[j] = f[k] + w(j)
    <3>1. /\ Added(1, 0) /\ Added(2, 1) /\ Added(3, 2) /\ Added(4, 3)
          /\ Added(5, 4) /\ Added(6, 5) /\ Added(7, 6) /\ Added(8, 7)
          /\ Added(9, 8) /\ Added(10, 9) /\ Added(11, 10) /\ Added(12, 11)
          /\ Added(13, 12) /\ Added(14, 13)
      BY ONLY <2>1, <2>2, Zenon
    <3> HIDE DEF Added
    <3>2. i \in {1, 2, 3, 4, 5, 6, 7, 8, 9, 10, 11, 12, 13, 14} OBVIOUS
    <3>3. /\ 1 - 1 = 0 /\ 2 - 1 = 1 /\ 3 - 1 = 2 /\ 4 - 1 = 3 /\ 5 - 1 = 4
          /\ 6 - 1 = 5 /\ 7 - 1 = 6 /\ 8 - 1 = 7 /\ 9 - 1 = 8 /\ 10 - 1 = 9
          /\ 11 - 1 = 10 /\ 12 - 1 = 11 /\ 13 - 1 = 12 /\ 14 - 1 = 13
      OBVIOUS
    <3>4. Added(i, i - 1) BY ONLY <3>1, <3>2, <3>3, Zenon
    <3> QED BY <3>4 DEF Added
  <2>5. \A i \in 0..14 : f[i] = IF i = 0 THEN 0 ELSE f[i - 1] + w(i)
    BY <2>2, <2>4
  <2>6. f = [i \in 0..14 |-> IF i = 0 THEN 0 ELSE f[i - 1] + w(i)]
    BY <2>3, <2>5
  <2>7. f = Loop(f) BY <2>6 DEF w
  <2> QED BY <2>7
<1>2. sum = Loop(sum)
  <2> HIDE DEF Loop
  <2> QED BY <1>1
<1>3. LuhnDigit(num) = ToTen(sum[Len(num)]) BY DEF LuhnDigit, ToTen
<1>4. \A i \in 1..14 : weighted[i] = Weight(num, i) BY DEF Weight
<1> HIDE DEF weighted, sum
<1>5. sum[0] = 0 /\ \A i \in 1..14 : sum[i] = sum[i - 1] + weighted[i]
  BY <1>2
<1> QED BY <1>3, <1>4, <1>5

LEMMA DoubledApart ==
  ASSUME NEW d \in Digit, NEW e \in Digit
  PROVE  /\ Doubled(d) \in Digit
         /\ Doubled(d) = Doubled(e) => d = e
BY DEF Digit, Doubled

\* A digit of a number is known by its weight.
LEMMA WeightApart ==
  ASSUME NEW a \in Seq(Digit), NEW b \in Seq(Digit), Len(a) = 14, Len(b) = 14,
         NEW i \in 1..14
  PROVE  /\ Weight(a, i) \in Digit /\ Weight(b, i) \in Digit
         /\ Weight(a, i) = Weight(b, i) => a[i] = b[i]
         /\ a[i] = b[i] => Weight(a, i) = Weight(b, i)
<1>1. i \in 1..Len(a) /\ i \in 1..Len(b) OBVIOUS
<1> HIDE DEF Digit
<1>2. \A s \in Seq(Digit) : \A j \in 1..Len(s) : s[j] \in Digit OBVIOUS
<1>3. a[i] \in Digit /\ b[i] \in Digit BY <1>1, <1>2
<1> QED BY <1>3, DoubledApart DEF Weight

LEMMA ToTenApart ==
  ASSUME NEW x \in Int, NEW y \in Int, NEW u \in 0..9, NEW v \in 0..9,
         u # v, x - y = u - v
  PROVE  ToTen(x) # ToTen(y)
<1> DEFINE m == x \div 10
           n == y \div 10
           c == x % 10
           d == y % 10
<1>1. /\ x = 10 * m + c /\ c \in 0..9 /\ m \in Int
      /\ y = 10 * n + d /\ d \in 0..9 /\ n \in Int
  OBVIOUS
<1> HIDE DEF m, n, c, d
<1>2. c # d
  <2>1. SUFFICES ASSUME c = d PROVE FALSE OBVIOUS
  <2>2. u - v = 10 * (m - n) BY <1>1, <2>1
  <2> QED BY <1>1, <2>2
<1>3. (10 - c) % 10 # (10 - d) % 10 BY <1>1, <1>2
<1> QED BY <1>3 DEF ToTen, c, d

LEMMA LuhnTells ==
  ASSUME NEW a \in Seq(Digit), NEW b \in Seq(Digit), Len(a) = 14, Len(b) = 14,
         NEW p \in 1..14, a[p] # b[p], \A i \in 1..14 : i # p => a[i] = b[i]
  PROVE  LuhnDigit(a) # LuhnDigit(b)
<1>1. PICK f : /\ f[0] = 0
               /\ \A i \in 1..14 : f[i] = f[i - 1] + Weight(a, i)
               /\ LuhnDigit(a) = ToTen(f[14])
  BY LuhnSum
<1>2. PICK g : /\ g[0] = 0
               /\ \A i \in 1..14 : g[i] = g[i - 1] + Weight(b, i)
               /\ LuhnDigit(b) = ToTen(g[14])
  BY LuhnSum
<1> DEFINE u == Weight(a, p)
           v == Weight(b, p)
           Ahead(i) == /\ f[i] \in Int /\ g[i] \in Int
                       /\ i < p => f[i] = g[i]
                       /\ i >= p => f[i] - g[i] = u - v
<1>3. u \in 0..9 /\ v \in 0..9 /\ u # v BY WeightApart DEF Digit
<1>4. Ahead(0) BY <1>1, <1>2
<1>5. ASSUME NEW i \in 1..14, Ahead(i - 1) PROVE Ahead(i)
  <2>1. f[i] = f[i - 1] + Weight(a, i) /\ g[i] = g[i - 1] + Weight(b, i)
    BY <1>1, <1>2
  <2>2. Weight(a, i) \in Int /\ Weight(b, i) \in Int BY WeightApart DEF Digit
  <2>3. i # p => Weight(a, i) = Weight(b, i) BY WeightApart
  <2> QED BY <1>5, <1>3, <2>1, <2>2, <2>3
<1> HIDE DEF Ahead, u, v
<1>6. Ahead(1) /\ Ahead(2) /\ Ahead(3) /\ Ahead(4) /\ Ahead(5) /\ Ahead(6) /\ Ahead(7)
  <2>1. Ahead(1) BY <1>4, <1>5
  <2>2. Ahead(2) BY <2>1, <1>5
  <2>3. Ahead(3) BY <2>2, <1>5
  <2>4. Ahead(4) BY <2>3, <1>5
  <2>5. Ahead(5) BY <2>4, <1>5
  <2>6. Ahead(6) BY <2>5, <1>5
  <2>7. Ahead(7) BY <2>6, <1>5
  <2> QED BY <2>1, <2>2, <2>3, <2>4, <2>5, <2>6, <2>7
<1>7. Ahead(14)
  <2>1. Ahead(8) BY <1>6, <1>5
  <2>2. Ahead(9) BY <2>1, <1>5
  <2>3. Ahead(10) BY <2>2, <1>5
  <2>4. Ahead(11) BY <2>3, <1>5
  <2>5. Ahead(12) BY <2>4, <1>5
  <2>6. Ahead(13) BY <2>5, <1>5
  <2> QED BY <2>6, <1>5
<1>8. f[14] \in Int /\ g[14] \in Int /\ f[14] - g[14] = u - v
  BY <1>7 DEF Ahead
<1>9. ToTen(f[14]) # ToTen(g[14])
  <2> HIDE DEF ToTen
  <2> QED BY ONLY <1>3, <1>8, ToTenApart
<1> QED BY <1>1, <1>2, <1>9

----------------------------------------------------------------------------
\* The parts of a printed number are where Generate puts them.

LEMMA DigitsSeq ==
  ASSUME NEW n \in Nat, NEW f \in [1..n -> Digit]
  PROVE  f \in Seq(Digit) /\ Len(f) = n
OBVIOUS

IsJoined(c, a, b) ==
  /\ c \in Seq(Digit) /\ Len(c) = Len(a) + Len(b)
  /\ \A i \in 1..Len(a) : c[i] = a[i]
  /\ \A i \in 1..Len(b) : c[i + Len(a)] = b[i]

LEMMA Joined ==
  ASSUME NEW a \in Seq(Digit), NEW b \in Seq(Digit)
  PROVE  IsJoined(a \o b, a, b)
<1> HIDE DEF Digit
<1> QED BY DEF IsJoined

IsExtended(c, a, e) ==
  /\ DOMAIN c = 1..(Len(a) + 1)
  /\ \A i \in 1..Len(a) : c[i] = a[i]
  /\ c[Len(a) + 1] = e

LEMMA Extended ==
  ASSUME NEW a \in Seq(Digit), NEW e
  PROVE  IsExtended(Append(a, e), a, e)
<1> HIDE DEF Digit
<1> QED BY DEF IsExtended

LEMMA BodyParts ==
  ASSUME NEW k \in Key, NEW n \in Printable, NEW random \in Random, NEW s \in Secret
  PROVE  LET b == Body(k, n, random, s) IN
         /\ b \in Seq(Digit) /\ Len(b) = 14
         /\ b[1] = k.flag
         /\ \A i \in 1..6 : b[i + 1] = Obfuscated(k.day, s)[i]
         /\ \A i \in 1..4 : b[i + 7] = FourDigits(n)[i]
<1> DEFINE o == Obfuscated(k.day, s)
           d == FourDigits(n)
           h == <<k.flag>>
<1>0. k.flag \in Digit /\ k.day \in [1..6 -> Digit] /\ random \in [1..3 -> Digit]
  BY NumbersAssumption
<1>1. o \in Seq(Digit) /\ Len(o) = 6
  <2>1. o \in [1..6 -> Digit] BY <1>0, ObfuscatedType
  <2> HIDE DEF o
  <2> QED BY <2>1, DigitsSeq
<1>2. d \in Seq(Digit) /\ Len(d) = 4
  <2>1. d \in [1..4 -> Digit] BY FourDigitsType
  <2> HIDE DEF d
  <2> QED BY <2>1, DigitsSeq
<1>3. random \in Seq(Digit) /\ Len(random) = 3 BY <1>0, DigitsSeq
<1>4. h \in Seq(Digit) /\ Len(h) = 1 /\ h[1] = k.flag BY <1>0
<1> HIDE DEF o, d, h, Digit
<1> DEFINE ho == h \o o
           hod == ho \o d
           b == hod \o random
<1>5. /\ ho \in Seq(Digit) /\ Len(ho) = 7
      /\ ho[1] = h[1] /\ \A i \in 1..6 : ho[i + 1] = o[i]
  <2>1. IsJoined(ho, h, o) BY <1>1, <1>4, Joined
  <2> HIDE DEF ho
  <2> QED BY <2>1, <1>1, <1>4 DEF IsJoined
<1> HIDE DEF ho
<1>6. /\ hod \in Seq(Digit) /\ Len(hod) = 11
      /\ \A i \in 1..7 : hod[i] = ho[i]
      /\ \A i \in 1..4 : hod[i + 7] = d[i]
  <2>1. IsJoined(hod, ho, d) BY <1>2, <1>5, Joined
  <2> HIDE DEF hod
  <2> QED BY <2>1, <1>2, <1>5 DEF IsJoined
<1> HIDE DEF hod
<1>7. /\ b \in Seq(Digit) /\ Len(b) = 14
      /\ \A i \in 1..11 : b[i] = hod[i]
  <2>1. IsJoined(b, hod, random) BY <1>3, <1>6, Joined
  <2> HIDE DEF b
  <2> QED BY <2>1, <1>3, <1>6 DEF IsJoined
<1>8. b = Body(k, n, random, s) BY DEF Body, b, hod, ho, h, o, d
<1> HIDE DEF b
<1>9. b[1] = k.flag BY <1>4, <1>5, <1>6, <1>7
<1>10. \A i \in 1..6 : b[i + 1] = o[i]
  <2> TAKE i \in 1..6
  <2>1. i + 1 \in 1..7 /\ i + 1 \in 1..11 OBVIOUS
  <2> QED BY <2>1, <1>5, <1>6, <1>7
<1>11. \A i \in 1..4 : b[i + 7] = d[i]
  <2> TAKE i \in 1..4
  <2>1. i + 7 \in 1..11 OBVIOUS
  <2> QED BY <2>1, <1>6, <1>7
<1> QED BY <1>7, <1>8, <1>9, <1>10, <1>11 DEF o, d

\* Numbers of different days, flags or sequence numbers differ before the
\* Luhn digit.
LEMMA BodiesApart ==
  ASSUME NEW k \in Key, NEW m \in Key, NEW n \in Printable, NEW l \in Printable,
         <<k, n>> # <<m, l>>,
         NEW x \in Random, NEW y \in Random, NEW s \in Secret
  PROVE  \E i \in 1..14 : Body(k, n, x, s)[i] # Body(m, l, y, s)[i]
<1> DEFINE a == Body(k, n, x, s)
           b == Body(m, l, y, s)
<1>1. /\ a[1] = k.flag
      /\ \A i \in 1..6 : a[i + 1] = Obfuscated(k.day, s)[i]
      /\ \A i \in 1..4 : a[i + 7] = FourDigits(n)[i]
      /\ b[1] = m.flag
      /\ \A i \in 1..6 : b[i + 1] = Obfuscated(m.day, s)[i]
      /\ \A i \in 1..4 : b[i + 7] = FourDigits(l)[i]
  BY BodyParts
<1> HIDE DEF a, b
<1>2. SUFFICES ASSUME \A i \in 1..14 : a[i] = b[i] PROVE FALSE BY DEF a, b
<1>3. k.flag = m.flag BY <1>1, <1>2
<1>4. k.day = m.day
  <2>1. k.day \in [1..6 -> Digit] /\ m.day \in [1..6 -> Digit]
    BY NumbersAssumption
  <2>2. \A i \in 1..6 : Obfuscated(k.day, s)[i] = Obfuscated(m.day, s)[i]
    <3> TAKE i \in 1..6
    <3>1. i + 1 \in 1..14 OBVIOUS
    <3> QED BY <3>1, <1>1, <1>2
  <2> QED BY <2>1, <2>2, ObfuscatedApart
<1>5. n = l
  <2>1. \A i \in 1..4 : FourDigits(n)[i] = FourDigits(l)[i]
    <3> TAKE i \in 1..4
    <3>1. i + 7 \in 1..14 OBVIOUS
    <3> QED BY <3>1, <1>1, <1>2
  <2> QED BY <2>1, FourDigitsApart
<1>6. k = m
  <2>1. k \in [flag : Digit, day : [1..6 -> Digit]] /\ m \in [flag : Digit, day : [1..6 -> Digit]]
    BY NumbersAssumption
  <2> QED BY <2>1, <1>3, <1>4
<1> QED BY <1>5, <1>6

\* Two digits of the printed numbers differ.
LEMMA PrintedDigitsApart ==
  ASSUME NEW k \in Key, NEW m \in Key, NEW n \in Printable, NEW l \in Printable,
         <<k, n>> # <<m, l>>,
         NEW x \in Random, NEW y \in Random, NEW s \in Secret
  PROVE  LET c == Printed(k, n, x, s)
             d == Printed(m, l, y, s)
         IN  /\ DOMAIN c = 1..15
             /\ \E i, j \in 1..15 : i # j /\ c[i] # d[i] /\ c[j] # d[j]
<1> DEFINE a == Body(k, n, x, s)
           b == Body(m, l, y, s)
           c == Append(a, LuhnDigit(a))
           d == Append(b, LuhnDigit(b))
<1>1. a \in Seq(Digit) /\ Len(a) = 14 /\ b \in Seq(Digit) /\ Len(b) = 14
  BY BodyParts
<1>2. PICK i \in 1..14 : a[i] # b[i] BY BodiesApart
<1>3. c = Printed(k, n, x, s) /\ d = Printed(m, l, y, s) BY DEF Printed
<1> HIDE DEF a, b
<1>4. /\ DOMAIN c = 1..15 /\ c[15] = LuhnDigit(a) /\ d[15] = LuhnDigit(b)
      /\ \A j \in 1..14 : c[j] = a[j] /\ d[j] = b[j]
  <2>1. IsExtended(c, a, LuhnDigit(a)) BY <1>1, Extended
  <2>2. IsExtended(d, b, LuhnDigit(b)) BY <1>1, Extended
  <2> HIDE DEF c, d, Digit
  <2> QED BY <2>1, <2>2, <1>1 DEF IsExtended
<1> HIDE DEF c, d
<1>5. c[i] # d[i] BY <1>2, <1>4
<1>6. CASE \E j \in 1..14 : j # i /\ a[j] # b[j]
  BY <1>3, <1>4, <1>5, <1>6
<1>7. CASE \A j \in 1..14 : j # i => a[j] = b[j]
  <2>1. LuhnDigit(a) # LuhnDigit(b) BY <1>1, <1>2, <1>7, LuhnTells
  <2>2. c[15] # d[15] BY <2>1, <1>4
  <2>3. i # 15 /\ i \in 1..15 /\ 15 \in 1..15 OBVIOUS
  <2> QED BY <2>2, <2>3, <1>3, <1>4, <1>5
<1> QED BY <1>6, <1>7

\* Generate's numbers are told apart, for any flag, day, secret and random
\* digits, by two digits at least (rand.go:180).
THEOREM NumbersArePrintedApart == Spec => []PrintedApart
<1>1. SeqInv /\ RefusedWhenFull => PrintedApart
  <2> SUFFICES ASSUME SeqInv, RefusedWhenFull,
                      NEW s \in Secret, NEW d \in Issued, NEW e \in Issued,
                      NEW x \in Random, NEW y \in Random, d # e
               PROVE  Cardinality(Differences(Number(d, x, s), Number(e, y, s))) >= 2
    BY DEF PrintedApart
  <2> DEFINE k == d[1]
             m == e[1]
             n == issued[k][d[2]]
             l == issued[m][e[2]]
  <2>1. /\ k \in Key /\ m \in Key /\ d = <<k, d[2]>> /\ e = <<m, e[2]>>
        /\ d[2] \in 1..Capacity /\ e[2] \in 1..Capacity
        /\ d[2] <= Len(issued[k]) /\ e[2] <= Len(issued[m])
    BY DEF Issued
  <2>2. n = d[2] - 1 /\ l = e[2] - 1
    <3>1. \A q \in Key : \A i \in 1..Capacity :
            i <= Len(issued[q]) => issued[q][i] = i - 1
      <4> TAKE q \in Key
      <4> TAKE i \in 1..Capacity
      <4> HAVE i <= Len(issued[q])
      <4>1. issued[q] = [j \in 1..Drawn(q) |-> j - 1] BY DEF SeqInv, NumbersInOrder
      <4>2. Drawn(q) \in Nat BY DEF SeqInv, TypeOK, Drawn
      <4>3. Len(issued[q]) = Drawn(q) BY <4>1, <4>2
      <4>4. i \in 1..Drawn(q) BY <4>2, <4>3
      <4> QED BY <4>1, <4>4
    <3> QED BY <3>1, <2>1
  <2> HIDE DEF n, l
  <2>3. n \in Printable /\ l \in Printable
    <3>1. \A i \in 1..Capacity : i - 1 \in Printable
      BY SeqAssumption, NumbersAssumption DEF Printable
    <3> QED BY <3>1, <2>1, <2>2
  <2>4. <<k, n>> # <<m, l>> BY <2>1, <2>2
  <2> DEFINE a == Printed(k, n, x, s)
             b == Printed(m, l, y, s)
  <2>5. Number(d, x, s) = a /\ Number(e, y, s) = b BY DEF Number, n, l
  <2>6. /\ DOMAIN a = 1..15
        /\ \E i, j \in 1..15 : i # j /\ a[i] # b[i] /\ a[j] # b[j]
    BY <2>1, <2>3, <2>4, PrintedDigitsApart
  <2> HIDE DEF a, b, k, m
  <2>7. PICK i, j \in 1..15 : i # j /\ a[i] # b[i] /\ a[j] # b[j] BY <2>6
  <2> DEFINE D == Differences(a, b)
  <2>8. D \subseteq 1..15 /\ {i, j} \subseteq D BY <2>6, <2>7 DEF Differences
  <2> HIDE DEF D
  <2>9. IsFiniteSet(1..15)
    <3>1. 1 \in Int /\ 15 \in Int OBVIOUS
    <3> QED BY <3>1, FS_Interval
  <2>10. IsFiniteSet(D) BY <2>8, <2>9, FS_Subset
  <2>11. Cardinality({i, j}) = 2
    <3>1. IsFiniteSet({i}) /\ Cardinality({i}) = 1 BY FS_Singleton
    <3>2. {i, j} = {i} \cup {j} /\ j \notin {i} BY <2>7
    <3>3. Cardinality({i} \cup {j}) = Cardinality({i}) + 1
      BY <3>1, <3>2, FS_AddElement
    <3> QED BY <3>1, <3>2, <3>3
  <2>12. Cardinality({i, j}) <= Cardinality(D) BY <2>8, <2>10, FS_Subset
  <2>13. Cardinality(D) \in Nat BY <2>10, FS_CardinalityType
  <2> QED BY <2>5, <2>11, <2>12, <2>13 DEF D
<1>2. Spec => []SeqInv BY SeqInvHolds
<1> QED BY <1>1, <1>2, RefusalIsFull, PTL
=============================================================================
