----------------------- MODULE PayrollSettingsProofs -----------------------
(***************************************************************************)
(* What TLAPS proves about PayrollSettings: type correctness, and what     *)
(* keeps the settings of two saves apart.                                  *)
(***************************************************************************)
EXTENDS PayrollSettings, TLAPS

\* The first insert of a save has a larger id than any row before it, so every
\* setting that has a row has a last one.
TypeInv == /\ TypeOK
           /\ \A x \in rows : x.id <= lastId
           /\ \A n \in SettingName : Named(n) # {} => LastRow(Named(n)) # {}

LEMMA CurrentType == ASSUME TypeInv PROVE Current \in Settings
<1>1. ASSUME NEW n \in SettingName, Named(n) # {}
      PROVE  (CHOOSE v \in Value : \E x \in LastRow(Named(n)) : x.value = v) \in Value
  <2>1. PICK x \in LastRow(Named(n)) : TRUE BY <1>1 DEF TypeInv
  <2>2. x.value \in Value BY <2>1 DEF LastRow, Named, TypeInv, TypeOK, SpecRow
  <2>3. QED BY <2>1, <2>2
<1>2. QED BY <1>1 DEF Current, Settings

LEMMA NowType == ASSUME TypeInv PROVE Now \in View
BY CurrentType DEF Now, View, TypeInv, TypeOK

LEMMA InitType == Init => TypeInv
<1> SUFFICES ASSUME Init PROVE TypeInv OBVIOUS
<1>1. rows = {} /\ lastId = 0 BY DEF Init
<1>2. lastId \in 0..MaxId BY <1>1, SettingsAssumption
<1>3. untidy \in BOOLEAN BY DEF Init
<1>4. /\ rows \subseteq SpecRow /\ \A x, y \in rows : x.id = y.id => x = y
      /\ save \in [Req -> Save \cup {Idle}] /\ shown \in [User -> View \cup {Idle}]
      /\ saved \subseteq Save /\ paid \subseteq View
  BY <1>1 DEF Init
<1>5. TypeOK BY <1>2, <1>3, <1>4 DEF TypeOK
<1>6. \A n \in SettingName : Named(n) = {} BY <1>1 DEF Named
<1>7. QED BY <1>1, <1>5, <1>6 DEF TypeInv

LEMMA SaveBeginType ==
  ASSUME TypeInv, NEW r \in Req, NEW s \in Save, SaveBegin(r, s)
  PROVE  TypeInv'
<1>1. rows' = rows \/ rows' = {} BY DEF SaveBegin, Kept
<1>2. lastId' = lastId BY DEF SaveBegin
<1>3. TypeOK' BY <1>1 DEF SaveBegin, TypeInv, TypeOK
<1>4. \A x \in rows' : x.id <= lastId' BY <1>1, <1>2 DEF TypeInv
<1>5. \A n \in SettingName : Named(n)' # {} => LastRow(Named(n)') # {}
  BY <1>1 DEF TypeInv, Named
<1>6. QED BY <1>3, <1>4, <1>5 DEF TypeInv, LastRow

LEMMA OrderType ==
  /\ \A n \in SettingName : Order[n] \in 1..3
  /\ \A n, m \in SettingName : Order[n] = Order[m] => n = m
BY DEF Order, SettingName

LEMMA SaveInsertType ==
  ASSUME TypeInv, NEW r \in Req, SaveInsert(r)
  PROVE  TypeInv'
<1>1. PICK s \in Save : s = save[r] BY DEF SaveInsert, TypeInv, TypeOK
<1>2. /\ rows' = rows \cup Inserted(s) /\ lastId' = lastId + 3 /\ lastId \in Nat
      /\ lastId + 3 <= MaxId /\ MaxId \in Nat
  BY <1>1, SettingsAssumption DEF SaveInsert, TypeInv, TypeOK
<1>3. ASSUME NEW x \in Inserted(s)
      PROVE  /\ x \in SpecRow /\ x.id > lastId /\ x.id <= lastId + 3
             /\ x.id = lastId + Order[x.name]
             /\ x = [id |-> lastId + Order[x.name], name |-> x.name, value |-> s[x.name]]
  <2>1. PICK n \in Given(s) :
          x = [id |-> lastId + Order[n], name |-> n, value |-> s[n]]
    BY DEF Inserted
  <2>2. n \in SettingName /\ s[n] \in Value BY SettingsAssumption DEF Given, Settings
  <2>3. Order[n] \in 1..3 BY <2>2, OrderType
  <2>4. QED BY <1>2, <2>1, <2>2, <2>3 DEF SpecRow
<1>4. rows' \subseteq SpecRow BY <1>2, <1>3 DEF TypeInv, TypeOK
<1>5. ASSUME NEW x \in rows', NEW y \in rows', x.id = y.id PROVE x = y
  <2>1. \A z \in rows : z.id <= lastId /\ z.id \in Int
    BY DEF TypeInv, TypeOK, SpecRow
  <2>2. CASE x \in rows /\ y \in rows BY <1>5, <2>2 DEF TypeInv, TypeOK
  <2>3. CASE x \in Inserted(s) /\ y \in Inserted(s)
    <3>1. x.name \in SettingName /\ y.name \in SettingName BY <1>3, <2>3 DEF SpecRow
    <3>2. Order[x.name] \in Int /\ Order[y.name] \in Int BY <3>1, OrderType
    <3>3. Order[x.name] = Order[y.name] BY <1>2, <1>3, <1>5, <2>3, <3>2
    <3>4. x.name = y.name BY <3>1, <3>3, OrderType
    <3>5. QED BY <1>3, <2>3, <3>4
  <2>4. CASE x \in rows /\ y \in Inserted(s) BY <1>2, <1>3, <1>5, <2>1, <2>4
  <2>5. CASE x \in Inserted(s) /\ y \in rows BY <1>2, <1>3, <1>5, <2>1, <2>5
  <2>6. QED BY <1>2, <2>2, <2>3, <2>4, <2>5
<1>6. lastId' \in 0..MaxId BY <1>2
<1>7. TypeOK' BY <1>4, <1>5, <1>6 DEF SaveInsert, TypeInv, TypeOK
<1>8. \A x \in rows' : x.id <= lastId' BY <1>2, <1>3 DEF TypeInv, TypeOK, SpecRow
<1>9. ASSUME NEW n \in SettingName, Named(n)' # {} PROVE LastRow(Named(n)') # {}
  <2>1. CASE n \in Given(s)
    <3>1. PICK x : x = [id |-> lastId + Order[n], name |-> n, value |-> s[n]] OBVIOUS
    <3>2. x \in Inserted(s) /\ x.name = n /\ x.id = lastId + Order[n]
      BY <2>1, <3>1 DEF Inserted
    <3>3. x \in Named(n)' BY <1>2, <3>2 DEF Named
    <3>4. Order[n] \in 1..3 BY OrderType
    <3>5. ASSUME NEW y \in Named(n)' PROVE x.id >= y.id
      <4>1. CASE y \in rows
        <5>1. y.id <= lastId /\ y.id \in Int BY <4>1 DEF TypeInv, TypeOK, SpecRow
        <5>2. QED BY <1>2, <3>2, <3>4, <5>1
      <4>2. CASE y \in Inserted(s)
        <5>1. y.name = n BY DEF Named
        <5>2. QED BY <1>2, <1>3, <3>2, <3>4, <4>2, <5>1
      <4>3. QED BY <1>2, <4>1, <4>2 DEF Named
    <3>6. QED BY <3>3, <3>5 DEF LastRow
  <2>2. CASE n \notin Given(s)
    <3>1. \A x \in Inserted(s) : x.name \in Given(s) BY DEF Inserted
    <3>2. Named(n)' = Named(n) BY <1>2, <2>2, <3>1 DEF Named
    <3>3. QED BY <1>9, <3>2 DEF TypeInv
  <2>3. QED BY <2>1, <2>2
<1>10. QED BY <1>7, <1>8, <1>9 DEF TypeInv, LastRow

\* The other steps leave the rows alone.
LEMMA OtherType ==
  ASSUME TypeInv, UNCHANGED <<rows, lastId>>, TypeOK'
  PROVE  TypeInv'
BY DEF TypeInv, Named, LastRow

LEMMA TypeStep == TypeInv /\ [Next]_vars => TypeInv'
<1> SUFFICES ASSUME TypeInv, [Next]_vars PROVE TypeInv' OBVIOUS
<1>1. ASSUME NEW r \in Req, NEW s \in Save, SaveBegin(r, s) PROVE TypeInv'
  BY <1>1, SaveBeginType
<1>2. ASSUME NEW r \in Req, SaveInsert(r) PROVE TypeInv' BY <1>2, SaveInsertType
<1>3. ASSUME NEW r \in Req, SaveFail(r) PROVE TypeInv'
  <2>1. TypeOK' BY <1>3 DEF SaveFail, TypeInv, TypeOK
  <2>2. QED BY <1>3, <2>1, OtherType DEF SaveFail
<1>4. ASSUME NEW u \in User, PayConfig(u) PROVE TypeInv'
  <2>1. TypeOK' BY <1>4, NowType DEF PayConfig, TypeInv, TypeOK
  <2>2. QED BY <1>4, <2>1, OtherType DEF PayConfig
<1>5. ASSUME NEW u \in User, Pay(u) PROVE TypeInv'
  <2>1. shown[u] \in View BY <1>5 DEF Pay, TypeInv, TypeOK
  <2>2. {shown[u], Now} \subseteq View BY <2>1, NowType
  <2>3. TypeOK' BY <1>5, <2>2 DEF Pay, TypeInv, TypeOK
  <2>4. QED BY <1>5, <2>3, OtherType DEF Pay
<1>6. CASE UNCHANGED vars
  <2>1. TypeOK' BY <1>6 DEF vars, TypeInv, TypeOK
  <2>2. QED BY <1>6, <2>1, OtherType DEF vars
<1>7. QED BY <1>1, <1>2, <1>3, <1>4, <1>5, <1>6 DEF Next

LEMMA TypeInvHolds == Spec => []TypeInv
BY InitType, TypeStep, PTL DEF Spec

\* The rows are rows of settings with ids of their own, and what PayConfig
\* shows and Pay records are settings, of whatever saves.
THEOREM SettingsTypeCorrect == Spec => []TypeOK
<1>1. TypeInv => TypeOK BY DEF TypeInv
<1>2. QED BY <1>1, TypeInvHolds, PTL

----------------------------------------------------------------------------
Row(b, s, n) == [id |-> b + Order[n], name |-> n, value |-> s[n]]

\* The rows of save s, with the ids after b, are there, no row is later, and
\* the earlier ones make the table untidy.
Last(b, s) == /\ Given(s) # {}
              /\ \A n \in Given(s) : Row(b, s, n) \in rows
              /\ \A x \in rows : \/ x.id <= b /\ untidy
                                 \/ \E n \in Given(s) : x = Row(b, s, n)

Filled == rows = {} \/ \E b \in Nat, s \in saved : Last(b, s)

\* As long as the table is tidy, it is empty while a save is on its way, and
\* no other save is.
Alone == ~untidy => \A r \in Req : save[r] # Idle =>
                      rows = {} /\ \A q \in Req : save[q] # Idle => q = r

\* What is shown or paid with is whole.
SavedInv ==
  /\ TypeInv /\ Filled /\ Alone
  /\ \A r \in Req : save[r] # Idle => save[r] \in saved /\ Given(save[r]) # {}
  /\ \A u \in User : shown[u] # Idle => Whole(shown[u])
  /\ \A v \in paid : Whole(v)

\* The loop over the rows finds all of the last save, and nothing else in a
\* tidy table.
LEMMA CurrentIsLast ==
  ASSUME TypeOK, NEW b \in Nat, NEW s \in Save, Last(b, s)
  PROVE  /\ \A n \in Given(s) : Current[n] = s[n]
         /\ Current = s \/ untidy
<1>1. ASSUME NEW n \in Given(s)
      PROVE  Current[n] = s[n]
  <2>0. n \in SettingName BY DEF Given
  <2>1. s[n] \in Value BY SettingsAssumption DEF Given, Settings
  <2>2. \A m \in SettingName : Order[m] \in 1..3 BY OrderType
  <2>3. PICK x : x = Row(b, s, n) OBVIOUS
  <2>4. x.id = b + Order[n] /\ x.name = n /\ x.value = s[n] BY <2>3 DEF Row
  <2>5. x \in Named(n) BY <2>3, <2>4 DEF Last, Named
  <2>6. ASSUME NEW y \in Named(n) PROVE y.id <= x.id /\ (y.id = x.id => y = x)
    <3>1. y \in rows /\ y.name = n /\ y.id \in Int BY DEF Named, TypeOK, SpecRow
    <3>2. CASE y.id <= b BY <2>0, <2>2, <2>4, <3>1, <3>2
    <3>3. ASSUME NEW m \in Given(s), y = Row(b, s, m) PROVE y = x
      <4>1. m = n BY <3>1, <3>3 DEF Row
      <4>2. QED BY <2>3, <3>3, <4>1
    <3>4. QED BY <2>0, <2>2, <2>4, <3>1, <3>2, <3>3 DEF Last
  <2>7. LastRow(Named(n)) = {x}
    <3>1. x.id \in Int BY <2>0, <2>2, <2>4
    <3>2. \A y \in Named(n) : y.id \in Int BY DEF Named, TypeOK, SpecRow
    <3>3. QED BY <2>5, <2>6, <3>1, <3>2 DEF LastRow
  <2>8. Named(n) # {} BY <2>5
  <2>9. Current[n] = CHOOSE v \in Value : \E y \in {x} : y.value = v
    BY <2>0, <2>7, <2>8 DEF Current
  <2>10. QED BY <2>1, <2>4, <2>9
<1>2. ASSUME NEW n \in SettingName, n \notin Given(s), ~untidy
      PROVE  Current[n] = s[n]
  <2>1. Named(n) = {} BY <1>2 DEF Last, Named, Row
  <2>2. QED BY <1>2, <2>1 DEF Current, Given
<1>3. s \in [SettingName -> Value \cup {Empty}] BY SettingsAssumption DEF Settings
<1>4. Current = [n \in SettingName |-> Current[n]] BY DEF Current
<1>5. QED BY <1>1, <1>2, <1>3, <1>4

LEMMA NowIsWhole == ASSUME SavedInv PROVE Whole(Now)
<1>1. CASE rows = {}
  <2>1. \A n \in SettingName : Named(n) = {} BY <1>1 DEF Named
  <2>2. Current = NoSettings BY <2>1 DEF Current, NoSettings
  <2>3. QED BY <2>2 DEF Whole, Now
<1>2. ASSUME NEW b \in Nat, NEW s \in saved, Last(b, s) PROVE Whole(Now)
  <2>1. s \in Save BY DEF SavedInv, TypeInv, TypeOK
  <2>2. /\ \A n \in Given(s) : Current[n] = s[n]
        /\ Current = s \/ untidy
    BY <1>2, <2>1, CurrentIsLast DEF SavedInv, TypeInv
  <2>3. QED BY <1>2, <2>2 DEF Whole, Now, Last
<1>3. QED BY <1>1, <1>2 DEF SavedInv, Filled

\* More saves make no view less whole.
LEMMA WholeKept ==
  ASSUME saved \subseteq saved', NEW v, Whole(v) PROVE Whole(v)'
BY DEF Whole

LEMMA SaveBeginSaved ==
  ASSUME SavedInv, NEW r \in Req, NEW s \in Save, SaveBegin(r, s), TypeInv'
  PROVE  SavedInv'
<1>1. /\ save[r] = Idle /\ UNCHANGED <<lastId, shown, paid>> /\ saved' = saved \cup {s}
      /\ save' = [save EXCEPT ![r] = IF Given(s) = {} THEN Idle ELSE s]
      /\ \/ rows' = {} /\ untidy' = \E q \in Req : save[q] # Idle
         \/ rows' = rows /\ untidy' = TRUE
  BY DEF SaveBegin, Kept
<1>2. Filled'
  <2>1. CASE rows' = {} BY <2>1 DEF Filled
  <2>2. CASE rows' = rows /\ untidy' = TRUE
    <3>1. ASSUME NEW b \in Nat, NEW t \in saved, Last(b, t) PROVE Last(b, t)'
      BY <2>2, <3>1 DEF Last, Row, Given
    <3>2. QED BY <1>1, <2>2, <3>1 DEF SavedInv, Filled
  <2>3. QED BY <1>1, <2>1, <2>2
<1>3. Alone'
  <2> SUFFICES ASSUME ~untidy', NEW q \in Req, save'[q] # Idle
               PROVE  rows' = {} /\ \A p \in Req : save'[p] # Idle => p = q
    BY DEF Alone
  <2>1. rows' = {} /\ \A p \in Req : save[p] = Idle BY <1>1
  <2>2. \A p \in Req : p # r => save'[p] = Idle BY <1>1, <2>1 DEF SavedInv, TypeInv, TypeOK
  <2>3. QED BY <2>1, <2>2
<1>4. \A q \in Req : save'[q] # Idle => save'[q] \in saved' /\ Given(save'[q]) # {}
  BY <1>1 DEF SavedInv, TypeInv, TypeOK
<1>5. \A v : Whole(v) => Whole(v)' BY <1>1, WholeKept
<1>6. QED BY <1>1, <1>2, <1>3, <1>4, <1>5 DEF SavedInv, Given

LEMMA SaveInsertSaved ==
  ASSUME SavedInv, NEW r \in Req, SaveInsert(r), TypeInv'
  PROVE  SavedInv'
<1>1. PICK s \in saved : s = save[r] /\ Given(s) # {} BY DEF SaveInsert, SavedInv
<1>2. /\ rows' = rows \cup Inserted(s) /\ lastId \in Nat /\ save[r] # Idle
      /\ UNCHANGED <<shown, saved, untidy, paid>> /\ save' = [save EXCEPT ![r] = Idle]
  BY <1>1 DEF SaveInsert, SavedInv, TypeInv, TypeOK
<1>3. Inserted(s) = {Row(lastId, s, n) : n \in Given(s)} BY DEF Inserted, Row
<1>4. ~untidy => rows = {} /\ \A q \in Req : save'[q] = Idle
  BY <1>2 DEF SavedInv, Alone, TypeInv, TypeOK
<1>5. Filled'
  <2>1. PICK b \in Nat : b = lastId BY <1>2
  <2>2. \A n \in Given(s) : Row(b, s, n) \in rows' BY <1>2, <1>3, <2>1
  <2>3. \A x \in rows' : (x.id <= b /\ untidy) \/ \E n \in Given(s) : x = Row(b, s, n)
    BY <1>2, <1>3, <1>4, <2>1 DEF SavedInv, TypeInv
  <2>4. Last(b, s)' BY <1>1, <1>2, <2>2, <2>3 DEF Last, Row, Given
  <2>5. QED BY <1>2, <2>4 DEF Filled
<1>6. Alone' BY <1>2, <1>4 DEF Alone
<1>7. \A q \in Req : save'[q] # Idle => save'[q] \in saved' /\ Given(save'[q]) # {}
  BY <1>2 DEF SavedInv, TypeInv, TypeOK
<1>8. \A v : Whole(v) => Whole(v)' BY <1>2, WholeKept
<1>9. QED BY <1>2, <1>5, <1>6, <1>7, <1>8 DEF SavedInv, Given

\* A step that leaves the rows alone and ends no tidiness keeps what they say.
LEMMA RowsKept ==
  ASSUME SavedInv, UNCHANGED <<rows, saved, untidy>>,
         \A q \in Req : save'[q] = save[q] \/ save'[q] = Idle
  PROVE  /\ Filled' /\ Alone' /\ \A v : Whole(v) => Whole(v)'
         /\ \A q \in Req : save'[q] # Idle => save'[q] \in saved' /\ Given(save'[q]) # {}
<1>1. Filled' BY DEF SavedInv, Filled, Last, Row, Given
<1>2. Alone' BY DEF SavedInv, Alone
<1>3. \A v : Whole(v) => Whole(v)' BY WholeKept
<1>4. ASSUME NEW q \in Req, save'[q] # Idle
      PROVE  save'[q] \in saved' /\ Given(save'[q]) # {}
  <2>1. save'[q] = save[q] /\ save[q] # Idle BY <1>4
  <2>2. save[q] \in saved /\ Given(save[q]) # {} BY <2>1 DEF SavedInv
  <2>3. Given(save'[q]) = Given(save[q]) BY <2>1 DEF Given
  <2>4. QED BY <2>1, <2>2, <2>3
<1>5. QED BY <1>1, <1>2, <1>3, <1>4

LEMMA SavedStep == SavedInv /\ TypeInv' /\ [Next]_vars => SavedInv'
<1> SUFFICES ASSUME SavedInv, TypeInv', [Next]_vars PROVE SavedInv' OBVIOUS
<1>1. ASSUME NEW r \in Req, NEW s \in Save, SaveBegin(r, s) PROVE SavedInv'
  BY <1>1, SaveBeginSaved
<1>2. ASSUME NEW r \in Req, SaveInsert(r) PROVE SavedInv' BY <1>2, SaveInsertSaved
<1>3. ASSUME NEW r \in Req, SaveFail(r) PROVE SavedInv'
  <2>1. /\ UNCHANGED <<rows, saved, untidy, shown, paid>>
        /\ \A q \in Req : save'[q] = save[q] \/ save'[q] = Idle
    BY <1>3 DEF SaveFail, SavedInv, TypeInv, TypeOK
  <2>2. QED BY <2>1, RowsKept DEF SavedInv
<1>4. ASSUME NEW u \in User, PayConfig(u) PROVE SavedInv'
  <2>1. /\ UNCHANGED <<rows, saved, untidy, save, paid>>
        /\ \A v \in User : shown'[v] = shown[v] \/ shown'[v] = Now
    BY <1>4 DEF PayConfig, SavedInv, TypeInv, TypeOK
  <2>2. \A v \in User : shown'[v] # Idle => Whole(shown'[v])
    BY <2>1, NowIsWhole DEF SavedInv
  <2>3. QED BY <2>1, <2>2, RowsKept DEF SavedInv
<1>5. ASSUME NEW u \in User, Pay(u) PROVE SavedInv'
  <2>1. /\ UNCHANGED <<rows, saved, untidy, save>> /\ shown[u] # Idle
        /\ paid' = {shown[u], Now}
        /\ \A v \in User : shown'[v] = shown[v] \/ shown'[v] = Idle
    BY <1>5 DEF Pay, SavedInv, TypeInv, TypeOK
  <2>2. \A v \in paid' : Whole(v) BY <2>1, NowIsWhole DEF SavedInv
  <2>3. \A v \in User : shown'[v] # Idle => Whole(shown'[v]) BY <2>1 DEF SavedInv
  <2>4. QED BY <2>1, <2>2, <2>3, RowsKept DEF SavedInv
<1>6. CASE UNCHANGED vars BY <1>6, RowsKept DEF vars, SavedInv
<1>7. QED BY <1>1, <1>2, <1>3, <1>4, <1>5, <1>6 DEF Next

LEMMA InitSaved == Init => SavedInv
BY InitType DEF Init, SavedInv, Filled, Alone

LEMMA SavedInvHolds == Spec => []SavedInv
<1>1. SavedInv /\ TypeInv' /\ [Next]_vars => SavedInv' BY SavedStep
<1>2. QED BY <1>1, InitSaved, TypeInvHolds, PTL DEF Spec

\* For any saves, complete or not, settings that are found, shown or paid with
\* are never a part of a save, and those of two saves come together only after
\* a failed DELETE or two saves at once (PortalPayrollSettingsSave).
THEOREM NeverMixed == Spec => []NoMixture
<1>1. SavedInv => NoMixture
  <2> SUFFICES ASSUME SavedInv PROVE NoMixture OBVIOUS
  <2>1. QED BY NowIsWhole DEF SavedInv, NoMixture
<1>2. QED BY <1>1, SavedInvHolds, PTL

=============================================================================
