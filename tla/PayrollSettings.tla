--------------------------- MODULE PayrollSettings ---------------------------
(***************************************************************************)
(* The payroll settings of cmd/modapi/http/portal/sys.go: rows of          *)
(* admin_portal_spec, one per setting that is not empty.  A save deletes   *)
(* all rows and then inserts the new ones in one statement; no transaction *)
(* holds the two together, and the error of the first is ignored.  A save  *)
(* need not fill in every setting.  A reader takes, for each name, the     *)
(* last row by id.                                                         *)
(*                                                                         *)
(* PayConfig shows the settings to whoever is about to pay; Pay reads them *)
(* again when it records the payment.  (What both do to the payroll is in  *)
(* module Payroll.)                                                        *)
(***************************************************************************)
EXTENDS Integers, FiniteSets

CONSTANTS
  Req,          \* slots for save requests in flight
  User,         \* who pays
  Save,         \* contents of save requests
  Value,
  Empty,        \* the empty string
  DeleteFails,  \* whether the DELETE of a save may fail
  MaxId,        \* bound: rows ever inserted
  Idle

SettingName == {"chain", "pay_contract", "pay_token"}
Settings == [SettingName -> Value \cup {Empty}]

\* What a reader found, and whether the rows were untidy then (see below).
View == [found : Settings, untidy : BOOLEAN]
NoSettings == [n \in SettingName |-> Empty]

ASSUME SettingsAssumption ==
  /\ Save \subseteq Settings
  /\ Empty \notin Value
  /\ Idle \notin Settings /\ Idle \notin View
  /\ DeleteFails \in BOOLEAN /\ MaxId \in Nat

VARIABLES
  rows,    \* the rows of admin_portal_spec with this spec_type
  lastId,  \* the last id given out
  save,    \* save[r] : what the save in slot r has still to insert, or Idle
  shown,   \* shown[u] : what PayConfig showed, or Idle
  saved,   \* contents of all save requests so far (history)
  untidy,  \* since the table was last empty and nobody else about to fill it,
           \* a DELETE failed or two saves ran side by side (history)
  paid     \* what the last payment was shown and recorded with (history)

vars == <<rows, lastId, save, shown, saved, untidy, paid>>

SpecRow == [id : 1..MaxId, name : SettingName, value : Value]

TypeOK == /\ rows \subseteq SpecRow
          /\ \A x, y \in rows : x.id = y.id => x = y
          /\ lastId \in 0..MaxId
          /\ save \in [Req -> Save \cup {Idle}]
          /\ shown \in [User -> View \cup {Idle}]
          /\ saved \subseteq Save
          /\ untidy \in BOOLEAN
          /\ paid \subseteq View

Init == /\ rows = {} /\ lastId = 0
        /\ save = [r \in Req |-> Idle]
        /\ shown = [u \in User |-> Idle]
        /\ saved = {} /\ untidy = FALSE
        /\ paid = {}

----------------------------------------------------------------------------
Given(s) == {n \in SettingName : s[n] # Empty}

\* DELETE of every row of the type; its error is not looked at.
Kept(s) == {}

SaveBegin(r, s) ==
  /\ save[r] = Idle
  /\ \/ /\ rows' = Kept(s)
        /\ untidy' = \E q \in Req : save[q] # Idle
     \/ /\ DeleteFails /\ rows' = rows
        /\ untidy' = TRUE
  /\ save' = [save EXCEPT ![r] = IF Given(s) = {} THEN Idle ELSE s]
  /\ saved' = saved \cup {s}
  /\ UNCHANGED <<lastId, shown, paid>>

\* The order of the appends: chain, contract, token.
Order == [n \in SettingName |->
            CASE n = "chain" -> 1 [] n = "pay_contract" -> 2 [] n = "pay_token" -> 3]

\* One INSERT of all rows, with ids in their order (three ids are put aside).
Inserted(s) == {[id |-> lastId + Order[n], name |-> n, value |-> s[n]] : n \in Given(s)}

SaveInsertEach(r) ==  \* mutant: one INSERT a row, of which a later one may fail
  /\ save[r] # Idle /\ lastId + 3 <= MaxId
  /\ \E n \in 1..3 : rows' = rows \cup {x \in Inserted(save[r]) : x.id <= lastId + n}
  /\ lastId' = lastId + 3
  /\ save' = [save EXCEPT ![r] = Idle]
  /\ UNCHANGED <<shown, saved, untidy, paid>>

SaveInsert(r) ==
  /\ save[r] # Idle /\ lastId + 3 <= MaxId
  /\ rows' = rows \cup Inserted(save[r])
  /\ lastId' = lastId + 3
  /\ save' = [save EXCEPT ![r] = Idle]
  /\ UNCHANGED <<shown, saved, untidy, paid>>

\* The insert fails, or the server stops: what was deleted stays deleted.
SaveFail(r) ==
  /\ save[r] # Idle
  /\ save' = [save EXCEPT ![r] = Idle]
  /\ UNCHANGED <<rows, lastId, shown, saved, untidy, paid>>

LastRow(S) == {x \in S : \A y \in S : x.id >= y.id}

Named(n) == {x \in rows : x.name = n}

\* The loop over the rows: a later row overwrites an earlier one.
Current == [n \in SettingName |->
  IF Named(n) = {} THEN Empty ELSE CHOOSE v \in Value : \E x \in LastRow(Named(n)) : x.value = v]

Now == [found |-> Current, untidy |-> untidy]

IsValid(s) == \A n \in SettingName : s[n] # Empty

PayConfig(u) ==
  /\ IsValid(Current)
  /\ shown' = [shown EXCEPT ![u] = Now]
  /\ UNCHANGED <<rows, lastId, save, saved, untidy, paid>>

Pay(u) ==
  /\ shown[u] # Idle /\ IsValid(Current)
  /\ paid' = {shown[u], Now}
  /\ shown' = [shown EXCEPT ![u] = Idle]
  /\ UNCHANGED <<rows, lastId, save, saved, untidy>>

Next == \/ \E r \in Req : \/ \E s \in Save : SaveBegin(r, s)
                          \/ SaveInsert(r)
                          \/ SaveFail(r)
        \/ \E u \in User : PayConfig(u) \/ Pay(u)

Spec == Init /\ [][Next]_vars

----------------------------------------------------------------------------
\* What was found is nothing, or everything some save gave, and nothing else
\* unless the rows were untidy.
Whole(v) ==
  \/ v.found = NoSettings
  \/ \E s \in saved : /\ Given(s) # {}
                      /\ \A n \in Given(s) : v.found[n] = s[n]
                      /\ v.found = s \/ v.untidy

\* Settings that are found, shown or paid with are never a part of a save, and
\* the chain of one save comes with the token of another only if the later one
\* leaves the token empty and the DELETE between them failed or the two ran side
\* by side; the next save that deletes alone puts an end to it.
NoMixture == Whole(Now) /\ \A v \in paid : Whole(v)
=============================================================================
