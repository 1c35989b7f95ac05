--------------------------- MODULE UserRolesProofs ---------------------------
(***************************************************************************)
(* Proofs about UserRoles, for any number of administrators, roles and lists. *)
(***************************************************************************)
EXTENDS UserRoles, TLAPS

Holds(w, role) == \E v \in rows : v.by = w /\ v.role = role

\* over is a strict order in time: it names who had committed before.
OverInv ==
    /\ \A e \in Edits : \A w \in over[e] : Committed(w)
    /\ \A e, f \in Edits : ~(f \in over[e] /\ e \in over[f])

\* Every row is of somebody who counts or still runs, and is being deleted only
\* by an edit that runs and found it committed.
RowInv ==
    \A v \in rows :
        /\ Committed(v.by) \/ Running(v.by)
        /\ v.gone # NoOne => Running(v.gone) /\ v.by \in over[v.gone]

\* A running DELETE has taken or has still to take whatever was committed when
\* it started, and nothing else; the INSERTs have put the list so far.
EditInv ==
    \A e \in Edits : Running(e) =>
        /\ \A v \in rows : v.by \in over[e] => Id(v) \in edit[e].seen \/ v.gone = e
        /\ \A id \in edit[e].seen : id[2] \in over[e]
        /\ edit[e].next \in 1..(Len(edit[e].asked) + 1)
        /\ \A role \in Ids :
               Holds(e, role) <=> \E i \in 1..(edit[e].next - 1) : edit[e].asked[i] = role

\* What is committed is there whole, or replaced whole.
Settled ==
    \A w \in Writers : Committed(w) =>
        \A role \in Ids : Holds(w, role) <=> ~Replaced(w) /\ role \in Wants(w)

Inv == TypeOK /\ OverInv /\ RowInv /\ EditInv /\ Settled

-----------------------------------------------------------------------------
LEMMA Initially == Init => Inv
<1> SUFFICES ASSUME Init PROVE Inv
  OBVIOUS
<1> USE RolesAssumption
<1>1. TypeOK
  BY DEF Init, TypeOK, Row, Fresh, Writers, Transaction
<1>2. OverInv /\ RowInv /\ EditInv
  BY DEF Init, OverInv, RowInv, EditInv, Running, Committed, Fresh
<1>3. \A w \in Writers : Committed(w) => w = Registration
  BY DEF Init, Writers, Committed
<1>4. ~Replaced(Registration)
  BY DEF Init, Replaced
<1>5. \A role \in Ids : Holds(Registration, role) <=> role \in InitialRoles
  <2>1. \A v \in rows : v.role \in InitialRoles
    BY DEF Init, Fresh
  <2>2. ASSUME NEW role \in InitialRoles PROVE Holds(Registration, role)
    <3>1. /\ Fresh(role, Registration) \in rows
          /\ Fresh(role, Registration).by = Registration
          /\ Fresh(role, Registration).role = role
      BY DEF Init, Fresh
    <3> QED BY <3>1 DEF Holds
  <2> QED BY <2>1, <2>2 DEF Holds
<1>6. Settled
  BY <1>3, <1>4, <1>5 DEF Settled, Wants
<1> QED BY <1>1, <1>2, <1>6 DEF Inv

-----------------------------------------------------------------------------
LEMMA StartKeeps ==
  ASSUME Inv, NEW e \in Edits, NEW list \in Lists, StartClear(e, list)
  PROVE  Inv'
<1> USE RolesAssumption
<1>0. /\ edit[e].pc = "idle" /\ rows' = rows
      /\ edit' = [edit EXCEPT ![e] =
             [pc |-> "running", asked |-> list, seen |-> {Id(v) : v \in Current}, next |-> 1]]
      /\ over' = [over EXCEPT ![e] = {w \in Writers : Committed(w)}]
      /\ TypeOK /\ OverInv /\ RowInv /\ EditInv /\ Settled
  BY DEF StartClear, Inv
<1>1. \A w \in Writers : Committed(w)' <=> Committed(w)
  BY <1>0 DEF TypeOK, Writers, Committed, Transaction
<1>2. \A f \in Edits : f # e => edit'[f] = edit[f] /\ over'[f] = over[f]
  BY <1>0 DEF TypeOK
<1>3. /\ edit'[e] = [pc |-> "running", asked |-> list,
                     seen |-> {Id(v) : v \in Current}, next |-> 1]
      /\ over'[e] = {w \in Writers : Committed(w)}
      /\ e # Registration /\ ~Committed(e) /\ ~Running(e)
  BY <1>0 DEF TypeOK, Committed, Running
<1>4. TypeOK'
  <2>1. {Id(v) : v \in Current} \subseteq Roles \X Writers
    BY <1>0 DEF TypeOK, Current, Id, Row
  <2> QED BY <1>0, <2>1 DEF TypeOK, Transaction
<1>5. OverInv'
  <2>1. \A f \in Edits : over[f] \subseteq Writers
    BY <1>0 DEF TypeOK
  <2>2. \A f \in Edits : \A w \in over'[f] : w \in Writers /\ Committed(w)
    BY <1>0, <1>2, <1>3, <2>1 DEF OverInv
  <2>3. \A f \in Edits : e \notin over'[f]
    BY <1>3, <2>2
  <2>4. \A f, g \in Edits : ~(g \in over'[f] /\ f \in over'[g])
    BY <1>0, <1>2, <2>3 DEF OverInv
  <2> QED BY <1>1, <2>2, <2>4 DEF OverInv
<1>6. \A v \in rows : v.by \in Writers /\ v.by # e /\ v.gone # e
  BY <1>0, <1>3 DEF TypeOK, Row, RowInv
<1>7. RowInv'
  BY <1>0, <1>1, <1>2, <1>6 DEF RowInv, Running, TypeOK, Row, Writers, Committed
<1>8. EditInv'
  <2>1. ASSUME NEW f \in Edits, Running(f)', f # e
        PROVE  /\ \A v \in rows' : v.by \in over'[f] => Id(v) \in edit'[f].seen \/ v.gone = f
               /\ \A id \in edit'[f].seen : id[2] \in over'[f]
               /\ edit'[f].next \in 1..(Len(edit'[f].asked) + 1)
               /\ \A role \in Ids :
                      Holds(f, role)' <=> \E i \in 1..(edit'[f].next - 1) : edit'[f].asked[i] = role
    BY <1>0, <1>2, <2>1 DEF EditInv, Running, Holds
  <2>2. \A v \in rows' : v.by \in over'[e] => Id(v) \in edit'[e].seen
    BY <1>0, <1>3 DEF Current
  <2>3. \A id \in edit'[e].seen : id[2] \in over'[e]
    BY <1>3, <1>6 DEF Current, Id
  <2>4. edit'[e].next \in 1..(Len(edit'[e].asked) + 1)
    <3>1. Len(list) \in Nat
      BY DEF TypeOK
    <3> QED BY <1>3, <3>1
  <2>5. \A role \in Ids : ~Holds(e, role)'
    BY <1>0, <1>6 DEF Holds
  <2> QED BY <1>3, <2>1, <2>2, <2>3, <2>4, <2>5 DEF EditInv
<1>9. Settled'
  <2>1. \A w \in Writers : Replaced(w)' <=> Replaced(w)
    BY <1>1, <1>2, <1>3 DEF Replaced, Writers
  <2>2. \A w \in Writers : Committed(w) => Wants(w)' = Wants(w)
    BY <1>2, <1>3 DEF Wants, Writers
  <2>3. \A w, role : Holds(w, role)' <=> Holds(w, role)
    BY <1>0 DEF Holds
  <2> QED BY <1>0, <1>1, <2>1, <2>2, <2>3 DEF Settled
<1> QED BY <1>4, <1>5, <1>7, <1>8, <1>9 DEF Inv

-----------------------------------------------------------------------------
LEMMA ClearKeeps ==
  ASSUME Inv, NEW e \in Edits, NEW id, ClearRow(e, id)
  PROVE  Inv'
<1> USE RolesAssumption
<1> DEFINE Taken(v) == IF Id(v) = id THEN [v EXCEPT !.gone = e] ELSE v
<1>0. /\ Running(e) /\ id \in edit[e].seen
      /\ \A v \in rows : Id(v) = id => v.gone = NoOne
      /\ rows' = {Taken(v) : v \in rows}
      /\ edit' = [edit EXCEPT ![e].seen = @ \ {id}]
      /\ over' = over
      /\ TypeOK /\ OverInv /\ RowInv /\ EditInv /\ Settled
  BY DEF ClearRow, Inv
<1>1. \A v \in rows : /\ Taken(v) \in Row
                      /\ Taken(v).role = v.role /\ Taken(v).by = v.by
                      /\ Id(Taken(v)) = Id(v)
                      /\ Taken(v).gone = IF Id(v) = id THEN e ELSE v.gone
  BY <1>0 DEF TypeOK, Row, Id
<1>2. /\ \A f \in Edits : /\ edit'[f].pc = edit[f].pc
                          /\ edit'[f].asked = edit[f].asked
                          /\ edit'[f].next = edit[f].next
                          /\ edit'[f].seen \subseteq edit[f].seen
                          /\ f # e => edit'[f].seen = edit[f].seen
      /\ edit'[e].seen = edit[e].seen \ {id}
  BY <1>0 DEF TypeOK, Transaction
<1>3. \A w : w \in Writers => (Committed(w)' <=> Committed(w))
  BY <1>2 DEF Writers, Committed
<1>4. \A f \in Edits : Running(f)' <=> Running(f)
  BY <1>2 DEF Running
<1>5. TypeOK'
  BY <1>0, <1>1 DEF TypeOK, Transaction
<1>6. OverInv'
  BY <1>0, <1>3 DEF OverInv, TypeOK
<1>7. \A f \in Edits : edit[f].pc = "running" => \A i \in edit[f].seen : i[2] \in over[f]
  BY <1>0 DEF EditInv, Running
<1>8. RowInv'
  <2>1. ASSUME NEW v \in rows
        PROVE  /\ Committed(v.by)' \/ Running(v.by)'
               /\ Taken(v).gone # NoOne =>
                      Running(Taken(v).gone)' /\ v.by \in over[Taken(v).gone]
    <3>1. v.by \in Writers /\ v.gone \in Edits \cup {NoOne}
      BY <1>0 DEF TypeOK, Row
    <3>2. Committed(v.by)' \/ Running(v.by)'
      BY <1>0, <1>3, <1>4, <3>1 DEF RowInv, Writers, Committed
    <3>3. CASE Id(v) = id
      BY <1>0, <1>1, <1>4, <1>7, <3>2, <3>3 DEF Running, Id
    <3>4. CASE Id(v) # id
      BY <1>0, <1>1, <1>4, <3>1, <3>2, <3>4 DEF RowInv
    <3> QED BY <3>3, <3>4
  <2> QED BY <1>0, <1>1, <2>1 DEF RowInv
<1>9. \A w, role : Holds(w, role)' <=> Holds(w, role)
  BY <1>0, <1>1 DEF Holds
<1>10. EditInv'
  <2>1. ASSUME NEW f \in Edits, Running(f), NEW v \in rows, v.by \in over[f]
        PROVE  Id(v) \in edit'[f].seen \/ Taken(v).gone = f
    <3>1. Id(v) \in edit[f].seen \/ v.gone = f
      BY <1>0, <2>1 DEF EditInv
    <3>2. CASE Id(v) = id
      <4>1. v.gone # f
        BY <1>0, <3>2
      <4> QED BY <1>1, <1>2, <3>1, <3>2, <4>1
    <3>3. CASE Id(v) # id
      BY <1>1, <1>2, <3>1, <3>3
    <3> QED BY <3>2, <3>3
  <2>2. ASSUME NEW f \in Edits, Running(f)'
        PROVE  /\ \A v \in rows' : v.by \in over'[f] => Id(v) \in edit'[f].seen \/ v.gone = f
               /\ \A i \in edit'[f].seen : i[2] \in over'[f]
    <3>1. \A v \in rows' : v.by \in over'[f] => Id(v) \in edit'[f].seen \/ v.gone = f
      <4> SUFFICES ASSUME NEW v \in rows, Taken(v).by \in over'[f]
                   PROVE  Id(Taken(v)) \in edit'[f].seen \/ Taken(v).gone = f
        BY <1>0
      <4> QED BY <1>0, <1>1, <1>4, <2>1, <2>2
    <3>2. \A i \in edit'[f].seen : i[2] \in over'[f]
      BY <1>0, <1>2, <1>4, <1>7, <2>2 DEF Running
    <3> QED BY <3>1, <3>2
  <2>3. ASSUME NEW f \in Edits, Running(f)'
        PROVE  /\ edit'[f].next \in 1..(Len(edit'[f].asked) + 1)
               /\ \A role \in Ids :
                      Holds(f, role)' <=> \E i \in 1..(edit'[f].next - 1) : edit'[f].asked[i] = role
    BY <1>0, <1>2, <1>4, <1>9, <2>3 DEF EditInv
  <2> QED BY <2>2, <2>3 DEF EditInv
<1>11. Settled'
  <2>1. \A w \in Writers : Replaced(w)' <=> Replaced(w)
    BY <1>0, <1>3 DEF Replaced, Writers
  <2>2. \A w \in Writers : Wants(w)' = Wants(w)
    BY <1>2 DEF Wants, Writers
  <2> QED BY <1>0, <1>3, <1>9, <2>1, <2>2 DEF Settled
<1> QED BY <1>5, <1>6, <1>8, <1>10, <1>11 DEF Inv

-----------------------------------------------------------------------------
LEMMA InsertKeeps ==
  ASSUME Inv, NEW e \in Edits, Insert(e)
  PROVE  Inv'
<1> USE RolesAssumption
<1> DEFINE new == Fresh(Wanted(e), e)
           n == edit[e].next
<1> HIDE DEF new, n
<1>0. /\ Running(e) /\ edit[e].seen = {} /\ n \in DOMAIN edit[e].asked
      /\ Wanted(e) \in Roles
      /\ rows' = rows \cup {new}
      /\ edit' = [edit EXCEPT ![e].next = @ + 1]
      /\ over' = over
      /\ TypeOK /\ OverInv /\ RowInv /\ EditInv /\ Settled
  BY DEF Insert, Inserting, Inv, new, n
<1>1. /\ new \in Row /\ new.role = Wanted(e) /\ new.by = e /\ new.gone = NoOne
      /\ Wanted(e) = edit[e].asked[n]
  BY <1>0 DEF Row, Fresh, Writers, Wanted, new, n
<1>2. /\ \A f \in Edits : /\ edit'[f].pc = edit[f].pc
                          /\ edit'[f].asked = edit[f].asked
                          /\ edit'[f].seen = edit[f].seen
                          /\ f # e => edit'[f].next = edit[f].next
      /\ edit'[e].next = n + 1
  BY <1>0 DEF TypeOK, Transaction, n
<1>2a. n \in Nat /\ edit[e].asked \in Seq(Ids) /\ n \in 1..Len(edit[e].asked)
  BY <1>0 DEF TypeOK, Transaction, n
<1>3. \A w : w \in Writers => (Committed(w)' <=> Committed(w))
  BY <1>2 DEF Writers, Committed
<1>4. \A f \in Edits : Running(f)' <=> Running(f)
  BY <1>2 DEF Running
<1>5. TypeOK'
  <2>1. [edit[e] EXCEPT !.next = @ + 1] \in Transaction
    <3>1. edit[e] \in Transaction
      BY <1>0 DEF TypeOK
    <3>2. edit[e].next + 1 \in Nat
      BY <1>2a DEF n
    <3> QED BY <3>1, <3>2 DEF Transaction
  <2>2. edit' \in [Edits -> Transaction]
    BY <1>0, <2>1 DEF TypeOK
  <2> QED BY <1>0, <1>1, <2>2 DEF TypeOK
<1>6. OverInv'
  BY <1>0, <1>3 DEF OverInv, TypeOK
<1>7. ~Committed(e) /\ \A f \in Edits : e \notin over[f]
  BY <1>0 DEF Committed, Running, OverInv
<1>8. RowInv'
  <2>1. \A v \in rows : /\ Committed(v.by)' \/ Running(v.by)'
                        /\ v.gone # NoOne => Running(v.gone)' /\ v.by \in over[v.gone]
    BY <1>0, <1>3, <1>4 DEF RowInv, TypeOK, Row, Writers, Committed
  <2> QED BY <1>0, <1>1, <1>4, <2>1 DEF RowInv
<1>9. \A w, role : Holds(w, role)' <=> Holds(w, role) \/ (w = e /\ role = Wanted(e))
  BY <1>0, <1>1 DEF Holds
<1>10. EditInv'
  <2>1. ASSUME NEW f \in Edits, Running(f)'
        PROVE  /\ \A v \in rows' : v.by \in over'[f] => Id(v) \in edit'[f].seen \/ v.gone = f
               /\ \A i \in edit'[f].seen : i[2] \in over'[f]
    BY <1>0, <1>1, <1>2, <1>4, <1>7, <2>1 DEF EditInv
  <2>2. ASSUME NEW f \in Edits, Running(f)', f # e
        PROVE  /\ edit'[f].next \in 1..(Len(edit'[f].asked) + 1)
               /\ \A role \in Ids :
                      Holds(f, role)' <=> \E i \in 1..(edit'[f].next - 1) : edit'[f].asked[i] = role
    BY <1>0, <1>2, <1>4, <1>9, <2>2 DEF EditInv
  <2>3. edit'[e].next \in 1..(Len(edit'[e].asked) + 1)
    BY <1>2, <1>2a
  <2>4. ASSUME NEW role \in Ids
        PROVE  Holds(e, role)' <=> \E i \in 1..(edit'[e].next - 1) : edit'[e].asked[i] = role
    <3>1. Holds(e, role) <=> \E i \in 1..(n - 1) : edit[e].asked[i] = role
      BY <1>0 DEF EditInv, n
    <3>2. 1..(edit'[e].next - 1) = 1..(n - 1) \cup {n}
      BY <1>2, <1>2a
    <3> QED BY <1>1, <1>2, <1>9, <3>1, <3>2
  <2> QED BY <2>1, <2>2, <2>3, <2>4 DEF EditInv
<1>11. Settled'
  <2>1. \A w \in Writers : Replaced(w)' <=> Replaced(w)
    BY <1>0, <1>3 DEF Replaced, Writers
  <2>2. \A w \in Writers : Wants(w)' = Wants(w)
    BY <1>2 DEF Wants, Writers
  <2> QED BY <1>0, <1>3, <1>7, <1>9, <2>1, <2>2 DEF Settled
<1> QED BY <1>5, <1>6, <1>8, <1>10, <1>11 DEF Inv

-----------------------------------------------------------------------------
LEMMA RollBackKeeps ==
  ASSUME Inv, NEW e \in Edits, Running(e), RollBack(e)
  PROVE  Inv'
<1> USE RolesAssumption
<1> DEFINE Left(v) == IF v.gone = e THEN [v EXCEPT !.gone = NoOne] ELSE v
<1>0. /\ Running(e)
      /\ rows' = {Left(v) : v \in {u \in rows : u.by # e}}
      /\ edit' = [edit EXCEPT ![e].pc = "aborted"]
      /\ over' = over
      /\ TypeOK /\ OverInv /\ RowInv /\ EditInv /\ Settled
  BY DEF RollBack, Undone, Inv
<1>1. \A v \in rows : /\ Left(v) \in Row
                      /\ Left(v).role = v.role /\ Left(v).by = v.by
                      /\ Id(Left(v)) = Id(v)
                      /\ Left(v).gone = IF v.gone = e THEN NoOne ELSE v.gone
  BY <1>0 DEF TypeOK, Row, Id
<1>2. /\ \A f \in Edits : f # e => edit'[f] = edit[f]
      /\ edit'[e].pc = "aborted"
  BY <1>0 DEF TypeOK, Transaction
<1>3. /\ \A w \in Writers : Committed(w)' <=> Committed(w)
      /\ ~Committed(e)
  BY <1>0, <1>2 DEF Writers, Committed, Running
<1>4. /\ \A f \in Edits : f # e => (Running(f)' <=> Running(f))
      /\ ~Running(e)'
  BY <1>2 DEF Running
<1>5. TypeOK'
  BY <1>0, <1>1 DEF TypeOK, Transaction
<1>6. OverInv'
  BY <1>0, <1>3 DEF OverInv, TypeOK
<1>7. RowInv'
  <2>1. ASSUME NEW v \in rows, v.by # e
        PROVE  /\ Committed(v.by)' \/ Running(v.by)'
               /\ Left(v).gone # NoOne =>
                      Running(Left(v).gone)' /\ v.by \in over[Left(v).gone]
    <3>1. v.by \in Writers /\ v.gone \in Edits \cup {NoOne}
      BY <1>0 DEF TypeOK, Row
    <3>2. Committed(v.by)' \/ Running(v.by)'
      BY <1>0, <1>3, <1>4, <2>1, <3>1 DEF RowInv, Writers, Committed
    <3> QED BY <1>0, <1>1, <1>4, <3>1, <3>2 DEF RowInv
  <2> QED BY <1>0, <1>1, <2>1 DEF RowInv
<1>8. \A w \in Writers, role \in Ids : w # e => (Holds(w, role)' <=> Holds(w, role))
  BY <1>0, <1>1 DEF Holds
<1>9. EditInv'
  <2>1. ASSUME NEW f \in Edits, Running(f)'
        PROVE  f # e /\ Running(f) /\ edit'[f] = edit[f] /\ over'[f] = over[f] /\ f \in Writers
    BY <1>0, <1>2, <1>4, <2>1 DEF Writers
  <2>2. ASSUME NEW f \in Edits, Running(f)', NEW v \in rows, v.by \in over[f]
        PROVE  Id(Left(v)) \in edit'[f].seen \/ Left(v).gone = f
    BY <1>0, <1>1, <2>1, <2>2 DEF EditInv
  <2>3. ASSUME NEW f \in Edits, Running(f)'
        PROVE  \A v \in rows' : v.by \in over'[f] => Id(v) \in edit'[f].seen \/ v.gone = f
    <3> SUFFICES ASSUME NEW v \in rows, Left(v).by \in over'[f], v.by # e
                 PROVE  Id(Left(v)) \in edit'[f].seen \/ Left(v).gone = f
      BY <1>0, <1>1
    <3> QED BY <1>0, <1>1, <2>2, <2>3
  <2>4. ASSUME NEW f \in Edits, Running(f)'
        PROVE  /\ \A i \in edit'[f].seen : i[2] \in over'[f]
               /\ edit'[f].next \in 1..(Len(edit'[f].asked) + 1)
               /\ \A role \in Ids :
                      Holds(f, role)' <=> \E i \in 1..(edit'[f].next - 1) : edit'[f].asked[i] = role
    BY <1>0, <1>8, <2>1, <2>4 DEF EditInv
  <2> QED BY <2>3, <2>4 DEF EditInv
<1>10. Settled'
  <2>1. \A w \in Writers : Replaced(w)' <=> Replaced(w)
    BY <1>0, <1>3 DEF Replaced, Writers
  <2>2. \A w \in Writers : w # e => Wants(w)' = Wants(w)
    BY <1>2 DEF Wants, Writers
  <2>3. ASSUME NEW w \in Writers, Committed(w)'
        PROVE  \A role \in Ids : Holds(w, role)' <=> ~Replaced(w)' /\ role \in Wants(w)'
    <3>1. w # e /\ Committed(w)
      BY <1>2, <1>3, <2>3 DEF Committed
    <3> QED BY <1>0, <1>8, <2>1, <2>2, <3>1 DEF Settled
  <2> QED BY <2>3 DEF Settled
<1> QED BY <1>5, <1>6, <1>7, <1>9, <1>10 DEF Inv

-----------------------------------------------------------------------------
LEMMA CommitKeeps ==
  ASSUME Inv, NEW e \in Edits, Commit(e)
  PROVE  Inv'
<1> USE RolesAssumption
<1>0. /\ Running(e) /\ edit[e].seen = {} /\ edit[e].next = Len(edit[e].asked) + 1
      /\ rows' = {v \in rows : v.gone # e}
      /\ edit' = [edit EXCEPT ![e].pc = "committed"]
      /\ over' = over
      /\ TypeOK /\ OverInv /\ RowInv /\ EditInv /\ Settled
  BY DEF Commit, Inv
<1>1. /\ \A f \in Edits : f # e => edit'[f] = edit[f]
      /\ edit'[e].pc = "committed" /\ edit'[e].asked = edit[e].asked
  BY <1>0 DEF TypeOK, Transaction
<1>2. /\ \A w \in Writers : Committed(w)' <=> Committed(w) \/ w = e
      /\ ~Committed(e)
  BY <1>0, <1>1 DEF Writers, Committed, Running
<1>3. /\ \A f \in Edits : f # e => (Running(f)' <=> Running(f))
      /\ ~Running(e)'
  BY <1>1 DEF Running
<1>4. \A f \in Edits : e \notin over[f]
  BY <1>0, <1>2 DEF OverInv
<1>5. TypeOK'
  BY <1>0 DEF TypeOK, Transaction
<1>6. OverInv'
  BY <1>0, <1>2 DEF OverInv, TypeOK
<1>7. \A v \in rows : v.gone = e <=> v.by \in over[e]
  BY <1>0 DEF RowInv, EditInv
<1>8. RowInv'
  <2>1. ASSUME NEW v \in rows, v.gone # e
        PROVE  /\ Committed(v.by)' \/ Running(v.by)'
               /\ v.gone # NoOne => Running(v.gone)' /\ v.by \in over[v.gone]
    <3>1. v.by \in Writers /\ v.gone \in Edits \cup {NoOne}
      BY <1>0 DEF TypeOK, Row
    <3>2. Committed(v.by)' \/ Running(v.by)'
      BY <1>0, <1>2, <1>3, <3>1 DEF RowInv, Writers, Committed
    <3> QED BY <1>0, <1>3, <2>1, <3>1, <3>2 DEF RowInv
  <2> QED BY <1>0, <2>1 DEF RowInv
<1>9. \A w \in Writers : \A role : Holds(w, role)' <=> Holds(w, role) /\ w \notin over[e]
  BY <1>0, <1>7 DEF Holds
<1>10. EditInv'
  <2>1. ASSUME NEW f \in Edits, Running(f)'
        PROVE  /\ f # e /\ Running(f) /\ edit'[f] = edit[f] /\ over'[f] = over[f]
               /\ f \in Writers /\ f \notin over[e]
    <3>1. f # e /\ Running(f) /\ f \in Edits
      BY <1>3, <2>1
    <3>2. ~Committed(f)
      BY <3>1 DEF Committed, Running
    <3> QED BY <1>0, <1>1, <3>1, <3>2 DEF Writers, OverInv
  <2>2. ASSUME NEW f \in Edits, Running(f)'
        PROVE  /\ \A v \in rows' : v.by \in over'[f] => Id(v) \in edit'[f].seen \/ v.gone = f
               /\ \A i \in edit'[f].seen : i[2] \in over'[f]
               /\ edit'[f].next \in 1..(Len(edit'[f].asked) + 1)
               /\ \A role \in Ids :
                      Holds(f, role)' <=> \E i \in 1..(edit'[f].next - 1) : edit'[f].asked[i] = role
    BY <1>0, <1>9, <2>1, <2>2 DEF EditInv
  <2> QED BY <2>2 DEF EditInv
<1>11. Settled'
  <2>1. \A w \in Writers : Replaced(w)' <=> Replaced(w) \/ w \in over[e]
    BY <1>0, <1>2 DEF Replaced, Writers
  <2>2. \A w \in Writers : Wants(w)' = Wants(w)
    BY <1>1 DEF Wants, Writers
  <2>3. ASSUME NEW w \in Writers, w # e, Committed(w)
        PROVE  \A role \in Ids : Holds(w, role)' <=> ~Replaced(w)' /\ role \in Wants(w)'
    BY <1>0, <1>9, <2>1, <2>2, <2>3 DEF Settled
  <2>4. e \in Writers /\ ~Replaced(e)'
    <3>1. e \in Writers /\ ~Replaced(e)
      BY <1>4 DEF Writers, Replaced
    <3> QED BY <1>4, <2>1, <3>1
  <2>5. \A role \in Ids : Holds(e, role) <=> role \in Wants(e)
    <3>1. edit[e].asked \in Seq(Ids) /\ Wants(e) = Range(edit[e].asked)
      BY <1>0 DEF TypeOK, Transaction, Wants
    <3>2. 1..(edit[e].next - 1) = DOMAIN edit[e].asked
      BY <1>0, <3>1
    <3>3. \A role \in Ids : Holds(e, role) <=> \E i \in DOMAIN edit[e].asked : edit[e].asked[i] = role
      BY <1>0, <3>2 DEF EditInv
    <3> QED BY <3>1, <3>3 DEF Range
  <2>6. \A role \in Ids : Holds(e, role)' <=> ~Replaced(e)' /\ role \in Wants(e)'
    BY <1>4, <1>9, <2>2, <2>4, <2>5
  <2> QED BY <1>2, <2>3, <2>6 DEF Settled
<1> QED BY <1>5, <1>6, <1>8, <1>10, <1>11 DEF Inv

-----------------------------------------------------------------------------
LEMMA StepKeeps == Inv /\ [Next]_vars => Inv'
<1> SUFFICES ASSUME Inv, [Next]_vars PROVE Inv'
  OBVIOUS
<1>1. ASSUME NEW e \in Edits, NEW list \in Lists, StartClear(e, list) PROVE Inv'
  BY <1>1, StartKeeps
<1>2. ASSUME NEW e \in Edits, NEW id \in edit[e].seen, ClearRow(e, id) PROVE Inv'
  BY <1>2, ClearKeeps
<1>3. ASSUME NEW e \in Edits, Insert(e) PROVE Inv'
  BY <1>3, InsertKeeps
<1>4. ASSUME NEW e \in Edits, Refuse(e) \/ Break(e) PROVE Inv'
  <2>1. Running(e) /\ RollBack(e)
    BY <1>4 DEF Refuse, Break, Inserting
  <2> QED BY <2>1, RollBackKeeps
<1>5. ASSUME NEW e \in Edits, Commit(e) PROVE Inv'
  BY <1>5, CommitKeeps
<1>6. CASE UNCHANGED vars
  BY <1>6 DEF vars, Inv, TypeOK, OverInv, RowInv, EditInv, Settled, Holds,
     Committed, Running, Replaced, Wants
<1> QED BY <1>1, <1>2, <1>3, <1>4, <1>5, <1>6 DEF Next

LEMMA AlwaysInv == Spec => []Inv
  BY Initially, StepKeeps, PTL DEF Spec

LEMMA InvIsWhole == Inv => RolesAreOfLastEdits
<1> SUFFICES ASSUME Inv PROVE RolesAreOfLastEdits
  OBVIOUS
<1> USE RolesAssumption
<1> DEFINE Rest == {id \in Roles \X Writers :
                       Committed(id[2]) /\ ~Replaced(id[2]) /\ id[1] \in Wants(id[2])}
<1>1. \A w \in Writers, role \in Roles :
         Committed(w) => (Holds(w, role) <=> ~Replaced(w) /\ role \in Wants(w))
  BY DEF Inv, Settled
<1>2. ASSUME NEW v \in Current PROVE Id(v) \in Rest
  <2>1. v \in rows /\ v.role \in Roles /\ v.by \in Writers /\ Committed(v.by)
    BY <1>2 DEF Inv, TypeOK, Row, Current
  <2>2. Holds(v.by, v.role)
    BY <2>1 DEF Holds
  <2> QED BY <1>1, <2>1, <2>2 DEF Id
<1>3. ASSUME NEW id \in Rest PROVE \E v \in Current : id = Id(v)
  <2>1. Holds(id[2], id[1]) /\ Committed(id[2]) /\ id = <<id[1], id[2]>>
    BY <1>1, <1>3
  <2> QED BY <2>1 DEF Holds, Current, Id
<1>4. {Id(v) : v \in Current} = Rest
  BY <1>2, <1>3
<1> QED BY <1>4 DEF RolesAreOfLastEdits

\* An edit that started when every other one that counts had committed leaves
\* the user with its list and nothing else: only edits that overlap may mix.
LastEditWins ==
    \A e \in Edits :
        (Committed(e) /\ \A w \in Writers \ {e} : Committed(w) => w \in over[e])
            => {v.role : v \in Current} = Wants(e)

LEMMA InvIsLast == Inv => LastEditWins
<1> SUFFICES ASSUME Inv, NEW e \in Edits, Committed(e),
                    \A w \in Writers \ {e} : Committed(w) => w \in over[e]
             PROVE  {v.role : v \in Current} = Wants(e)
  BY DEF LastEditWins
<1> USE RolesAssumption
<1>1. e \in Writers /\ \A f \in Edits : f \in Writers
  BY DEF Writers
<1>2. ~Replaced(e)
  BY <1>1 DEF Inv, OverInv, Replaced
<1>3. \A w \in Writers \ {e} : Committed(w) => Replaced(w)
  BY DEF Replaced
<1>4. \A v \in Current : v \in rows /\ v.role \in Ids /\ v.by \in Writers /\ Committed(v.by)
  BY DEF Inv, TypeOK, Row, Current
<1>5. \A v \in Current : Holds(v.by, v.role)
  BY <1>4 DEF Holds
<1>6. \A v \in Current : v.by = e /\ v.role \in Wants(e)
  BY <1>2, <1>3, <1>4, <1>5 DEF Inv, Settled
<1>7. Wants(e) \subseteq Ids
  BY <1>1 DEF Inv, TypeOK, Transaction, Wants, Range
<1>8. \A role \in Wants(e) : Holds(e, role)
  BY <1>1, <1>2, <1>7 DEF Inv, Settled
<1>9. \A role \in Wants(e) : \E v \in Current : v.role = role
  BY <1>8 DEF Holds, Current
<1> QED BY <1>6, <1>9

-----------------------------------------------------------------------------
\* The primary key: of two rows with one role, one is being deleted by the
\* edit that has inserted the other.
UniqueRole(R) ==
    \A u, v \in R : u.role = v.role /\ u # v => u.gone = v.by \/ v.gone = u.by

\* What a running edit has inserted so far are roles that exist, each once.
ProperSoFar(t) ==
    \A k \in 1..(t.next - 1) :
        /\ t.asked[k] \in Roles
        /\ \A j \in 1..(t.next - 1) : t.asked[j] = t.asked[k] => j = k

KeyInv == UniqueRole(rows) /\ \A e \in Edits : Running(e) => ProperSoFar(edit[e])

LEMMA KeyInitially == Init => KeyInv
<1> SUFFICES ASSUME Init PROVE KeyInv
  OBVIOUS
<1>1. \A u, v \in rows : u.role = v.role => u = v
  BY DEF Init, Fresh
<1>2. \A e \in Edits : ~Running(e)
  BY DEF Init, Running
<1> QED BY <1>1, <1>2 DEF KeyInv, UniqueRole

\* Nobody but a running edit can be in the way of its INSERT.
LEMMA InsertIsNew ==
  ASSUME Inv, NEW e \in Edits, Insert(e)
  PROVE  /\ \A v \in rows : v.role = Wanted(e) => v.gone = e
         /\ \A k \in 1..(edit[e].next - 1) : edit[e].asked[k] # Wanted(e)
<1> USE RolesAssumption
<1>1. \A v \in rows : v.role = Wanted(e) => v.gone = e
  BY DEF Insert, SameKey
<1>2. Wanted(e) \in Ids /\ Running(e)
  BY DEF Insert, Inserting
<1>3. ~Holds(e, Wanted(e))
  <2>1. ASSUME NEW v \in rows, v.by = e, v.role = Wanted(e) PROVE FALSE
    <3>1. v.gone = e /\ e # NoOne
      BY <1>1, <2>1
    <3>2. e \in over[e]
      BY <2>1, <3>1 DEF Inv, RowInv
    <3> QED BY <3>2 DEF Inv, OverInv
  <2> QED BY <2>1 DEF Holds
<1> QED BY <1>1, <1>2, <1>3 DEF Inv, EditInv

LEMMA KeyStep == ASSUME Inv, KeyInv, [Next]_vars PROVE KeyInv'
<1> USE RolesAssumption
<1>1. ASSUME NEW e \in Edits, NEW list \in Lists, StartClear(e, list) PROVE KeyInv'
  <2>1. /\ rows' = rows
        /\ \A f \in Edits : f # e => edit'[f] = edit[f]
        /\ edit'[e].next = 1
    BY <1>1 DEF StartClear, Inv, TypeOK, Transaction
  <2>2. ProperSoFar(edit'[e])
    BY <2>1 DEF ProperSoFar
  <2>3. \A f \in Edits : f # e => (Running(f)' <=> Running(f))
    BY <2>1 DEF Running
  <2> QED BY <2>1, <2>2, <2>3 DEF KeyInv
<1>2. ASSUME NEW e \in Edits, NEW id \in edit[e].seen, ClearRow(e, id) PROVE KeyInv'
  <2> DEFINE Taken(v) == IF Id(v) = id THEN [v EXCEPT !.gone = e] ELSE v
  <2>1. /\ rows' = {Taken(v) : v \in rows}
        /\ \A v \in rows : Id(v) = id => v.gone = NoOne
        /\ edit' = [edit EXCEPT ![e].seen = @ \ {id}]
    BY <1>2 DEF ClearRow
  <2>2. \A v \in rows : /\ Taken(v).role = v.role /\ Taken(v).by = v.by
                        /\ Taken(v).gone = IF Id(v) = id THEN e ELSE v.gone
                        /\ v.by \in Writers /\ v.gone \in Edits \cup {NoOne}
    BY DEF Inv, TypeOK, Row, Id
  <2>3. \A v \in rows : v.by # NoOne
    BY <2>2 DEF Writers
  <2>4. ASSUME NEW u \in rows, NEW v \in rows, u.role = v.role, u # v
        PROVE  Taken(u).gone = Taken(v).by \/ Taken(v).gone = Taken(u).by
    <3>1. u.gone = v.by \/ v.gone = u.by
      BY <2>4 DEF KeyInv, UniqueRole
    <3> HIDE DEF Taken
    <3> QED BY <2>1, <2>2, <2>3, <3>1
  <2>5. UniqueRole(rows')
    <3>1. ASSUME NEW u \in rows, NEW v \in rows,
                 Taken(u).role = Taken(v).role, Taken(u) # Taken(v)
          PROVE  Taken(u).gone = Taken(v).by \/ Taken(v).gone = Taken(u).by
      <4>1. u.role = v.role /\ u # v
        BY <2>2, <3>1
      <4> QED BY <2>4, <4>1
    <3> HIDE DEF Taken
    <3> QED BY <2>1, <3>1 DEF UniqueRole
  <2>6. \A f \in Edits : /\ edit'[f].pc = edit[f].pc
                         /\ edit'[f].next = edit[f].next /\ edit'[f].asked = edit[f].asked
    BY <2>1 DEF Inv, TypeOK, Transaction
  <2>7. ASSUME NEW f \in Edits, Running(f)' PROVE ProperSoFar(edit'[f])
    <3>1. ProperSoFar(edit[f])
      BY <2>6, <2>7 DEF Running, KeyInv
    <3> QED BY <2>6, <3>1 DEF ProperSoFar
  <2> QED BY <2>5, <2>7 DEF KeyInv
<1>3. ASSUME NEW e \in Edits, Insert(e) PROVE KeyInv'
  <2>1. /\ rows' = rows \cup {Fresh(Wanted(e), e)}
        /\ edit' = [edit EXCEPT ![e].next = @ + 1]
        /\ Wanted(e) \in Roles /\ Running(e) /\ edit[e].next \in Nat
        /\ edit[e].asked[edit[e].next] = Wanted(e)
    BY <1>3 DEF Insert, Inserting, Wanted, Inv, TypeOK, Transaction
  <2>2. /\ \A v \in rows : v.role = Wanted(e) => v.gone = e
        /\ \A k \in 1..(edit[e].next - 1) : edit[e].asked[k] # Wanted(e)
    BY <1>3, InsertIsNew
  <2>3. UniqueRole(rows')
    <3>1. Fresh(Wanted(e), e).role = Wanted(e) /\ Fresh(Wanted(e), e).by = e
      BY DEF Fresh
    <3> DEFINE new == Fresh(Wanted(e), e)
    <3>2. new.role = Wanted(e) /\ new.by = e /\ rows' = rows \cup {new}
      BY <2>1, <3>1
    <3> HIDE DEF new
    <3> QED BY <2>2, <3>2 DEF KeyInv, UniqueRole
  <2>4. ProperSoFar(edit'[e])
    <3>1. edit'[e].next = edit[e].next + 1 /\ edit'[e].asked = edit[e].asked
      BY <2>1 DEF Inv, TypeOK, Transaction
    <3>2. 1..(edit'[e].next - 1) \subseteq 1..(edit[e].next - 1) \cup {edit[e].next}
      BY <2>1, <3>1
    <3>3. ProperSoFar(edit[e])
      BY <2>1 DEF KeyInv
    <3> QED BY <2>1, <2>2, <3>1, <3>2, <3>3 DEF ProperSoFar
  <2>5. \A f \in Edits : f # e => edit'[f] = edit[f] /\ (Running(f)' <=> Running(f))
    BY <2>1 DEF Inv, TypeOK, Running
  <2> QED BY <2>3, <2>4, <2>5 DEF KeyInv
<1>4. ASSUME NEW e \in Edits, Refuse(e) \/ Break(e) PROVE KeyInv'
  <2> DEFINE Left(v) == IF v.gone = e THEN [v EXCEPT !.gone = NoOne] ELSE v
  <2>1. /\ rows' = {Left(v) : v \in {u \in rows : u.by # e}}
        /\ edit' = [edit EXCEPT ![e].pc = "aborted"]
    BY <1>4 DEF Refuse, Break, RollBack, Undone
  <2>2. \A v \in rows : /\ Left(v).role = v.role /\ Left(v).by = v.by
                        /\ v.gone # e => Left(v).gone = v.gone
    BY DEF Inv, TypeOK, Row
  <2>3. UniqueRole(rows')
    <3>1. ASSUME NEW u \in rows, NEW v \in rows, u.by # e, v.by # e,
                 Left(u).role = Left(v).role, Left(u) # Left(v)
          PROVE  Left(u).gone = Left(v).by \/ Left(v).gone = Left(u).by
      <4>1. u.role = v.role /\ u # v
        BY <2>2, <3>1
      <4>2. u.gone = v.by \/ v.gone = u.by
        BY <4>1 DEF KeyInv, UniqueRole
      <4> HIDE DEF Left
      <4> QED BY <2>2, <3>1, <4>2
    <3> HIDE DEF Left
    <3> QED BY <2>1, <3>1 DEF UniqueRole
  <2>4. /\ \A f \in Edits : f # e => edit'[f] = edit[f] /\ (Running(f)' <=> Running(f))
        /\ ~Running(e)'
    BY <2>1 DEF Inv, TypeOK, Transaction, Running
  <2> QED BY <2>3, <2>4 DEF KeyInv
<1>5. ASSUME NEW e \in Edits, Commit(e) PROVE KeyInv'
  <2>1. rows' \subseteq rows /\ edit' = [edit EXCEPT ![e].pc = "committed"]
    BY <1>5 DEF Commit
  <2>2. UniqueRole(rows')
    BY <2>1 DEF KeyInv, UniqueRole
  <2>3. /\ \A f \in Edits : f # e => edit'[f] = edit[f] /\ (Running(f)' <=> Running(f))
        /\ ~Running(e)'
    BY <2>1 DEF Inv, TypeOK, Transaction, Running
  <2> QED BY <2>2, <2>3 DEF KeyInv
<1>6. CASE UNCHANGED vars
  BY <1>6 DEF vars, KeyInv, Running
<1> QED BY <1>1, <1>2, <1>3, <1>4, <1>5, <1>6 DEF Next

LEMMA AlwaysKeyInv == Spec => [](Inv /\ KeyInv)
<1>1. Init => Inv /\ KeyInv
  BY Initially, KeyInitially
<1>2. Inv /\ KeyInv /\ [Next]_vars => (Inv /\ KeyInv)'
  BY StepKeeps, KeyStep
<1> QED BY <1>1, <1>2, PTL DEF Spec

-----------------------------------------------------------------------------
\* What the user has, as others see it.
Given == {Id(v) : v \in Current}
Status == [e \in Edits |-> edit[e].pc]
Asked == [e \in Edits |-> edit[e].asked]

LEMMA BeginImplements ==
  ASSUME Inv, NEW e \in Edits, NEW list \in Lists, StartClear(e, list)
  PROVE  Grants!Begin(e, list)
<1> USE RolesAssumption
<1>1. /\ edit[e].pc = "idle" /\ rows' = rows
      /\ edit' = [edit EXCEPT ![e] =
             [pc |-> "running", asked |-> list, seen |-> {Id(v) : v \in Current}, next |-> 1]]
      /\ over' = [over EXCEPT ![e] = {w \in Writers : Committed(w)}]
      /\ edit \in [Edits -> Transaction]
  BY DEF StartClear, Inv, TypeOK
<1>2. /\ \A f \in Edits : f # e => edit'[f] = edit[f]
      /\ edit'[e].pc = "running" /\ edit'[e].asked = list
  BY <1>1
<1>3. /\ Status[e] = "idle"
      /\ Status' = [Status EXCEPT ![e] = "running"]
      /\ Asked' = [Asked EXCEPT ![e] = list]
  BY <1>1, <1>2 DEF Status, Asked
<1>4. Given' = Given
  <2>1. \A v \in rows : Committed(v.by)' <=> Committed(v.by)
    BY <1>1, <1>2 DEF Committed, Inv, TypeOK, Row, Writers
  <2>2. Current' = Current
    BY <1>1, <2>1 DEF Current
  <2> QED BY <2>2 DEF Given, Id
<1>5. {w \in Writers : Committed(w)} = {Registration} \cup {f \in Edits : Status[f] = "committed"}
  BY DEF Writers, Committed, Status
<1> QED BY <1>1, <1>3, <1>4, <1>5 DEF Grants!Begin, Grants!Givers, Given, Status, Asked

\* A step that changes neither who counts nor the rows of those who do.
LEMMA UnseenSteps ==
  ASSUME Inv, NEW e \in Edits,
         Insert(e) \/ \E id \in edit[e].seen : ClearRow(e, id)
  PROVE  UNCHANGED <<Given, Status, Asked, over>>
<1> USE RolesAssumption
<1>1. /\ over' = over
      /\ \A f \in Edits : edit'[f].pc = edit[f].pc /\ edit'[f].asked = edit[f].asked
  <2>1. edit \in [Edits -> Transaction]
    BY DEF Inv, TypeOK
  <2>2. CASE Insert(e)
    BY <2>1, <2>2 DEF Insert, Transaction
  <2>3. ASSUME NEW id \in edit[e].seen, ClearRow(e, id)
        PROVE  /\ over' = over
               /\ \A f \in Edits : edit'[f].pc = edit[f].pc /\ edit'[f].asked = edit[f].asked
    BY <2>1, <2>3 DEF ClearRow, Transaction
  <2> QED BY <2>2, <2>3
<1>2. Status' = Status /\ Asked' = Asked
  BY <1>1 DEF Status, Asked
<1>3. \A w \in Writers : Committed(w)' <=> Committed(w)
  BY <1>1 DEF Committed, Writers
<1>4. \A v \in rows : v.by \in Writers
  BY DEF Inv, TypeOK, Row
<1>5. CASE Insert(e)
  <2>1. rows' = rows \cup {Fresh(Wanted(e), e)} /\ Fresh(Wanted(e), e).by = e
    BY <1>5 DEF Insert, Fresh
  <2>2. e \in Writers /\ ~Committed(e)
    BY <1>5 DEF Insert, Inserting, Running, Committed, Writers
  <2>3. Current' = Current
    BY <1>3, <1>4, <2>1, <2>2 DEF Current
  <2> QED BY <1>1, <1>2, <2>3 DEF Given, Id
<1>6. ASSUME NEW id \in edit[e].seen, ClearRow(e, id) PROVE Given' = Given
  <2> DEFINE Taken(v) == IF Id(v) = id THEN [v EXCEPT !.gone = e] ELSE v
  <2>1. rows' = {Taken(v) : v \in rows}
    BY <1>6 DEF ClearRow
  <2>2. \A v \in rows : Taken(v).by = v.by /\ Id(Taken(v)) = Id(v)
    BY DEF Inv, TypeOK, Row, Id
  <2> HIDE DEF Taken
  <2>3. Current' = {Taken(v) : v \in Current}
    BY <1>3, <1>4, <2>1, <2>2 DEF Current
  <2>4. Given' = {Id(v) : v \in Current'}
    BY DEF Given, Id
  <2> QED BY <2>2, <2>3, <2>4 DEF Given, Current
<1> QED BY <1>1, <1>2, <1>5, <1>6

LEMMA GiveUpImplements ==
  ASSUME Inv, NEW e \in Edits, Refuse(e) \/ Break(e)
  PROVE  Grants!GiveUp(e)
<1> USE RolesAssumption
<1> DEFINE Left(v) == IF v.gone = e THEN [v EXCEPT !.gone = NoOne] ELSE v
<1>1. /\ Running(e)
      /\ rows' = {Left(v) : v \in {u \in rows : u.by # e}}
      /\ edit' = [edit EXCEPT ![e].pc = "aborted"]
      /\ over' = over
      /\ edit \in [Edits -> Transaction]
  BY DEF Refuse, Break, Inserting, RollBack, Undone, Inv, TypeOK
<1>2. /\ \A f \in Edits : f # e => edit'[f] = edit[f]
      /\ edit'[e].pc = "aborted" /\ edit'[e].asked = edit[e].asked
  BY <1>1 DEF Transaction
<1>3. /\ Status[e] = "running"
      /\ Status' = [Status EXCEPT ![e] = "aborted"]
      /\ Asked' = Asked
  BY <1>1, <1>2 DEF Status, Asked, Running
<1>4. \A w \in Writers : Committed(w)' <=> Committed(w) /\ w # e
  BY <1>1, <1>2 DEF Committed, Writers, Running
<1>5. \A v \in rows : Left(v).by = v.by /\ Id(Left(v)) = Id(v) /\ v.by \in Writers
  BY DEF Inv, TypeOK, Row, Id
<1>6. ~Committed(e)
  BY <1>1 DEF Committed, Running
<1> HIDE DEF Left
<1>7. Current' = {Left(v) : v \in Current}
  BY <1>1, <1>4, <1>5, <1>6 DEF Current
<1>8. Given' = {Id(v) : v \in Current'}
  BY DEF Given, Id
<1>9. Given' = Given
  BY <1>5, <1>7, <1>8 DEF Given, Current
<1> QED BY <1>1, <1>3, <1>9 DEF Grants!GiveUp, Given, Status, Asked

LEMMA GiveImplements ==
  ASSUME Inv, KeyInv, NEW e \in Edits, Commit(e)
  PROVE  Grants!Give(e)
<1> USE RolesAssumption
<1> DEFINE list == edit[e].asked
           kept == {g \in Given : g[2] \notin over[e]}
           put == {<<role, e>> : role \in {list[k] : k \in 1..Len(list)}}
<1>1. /\ Running(e) /\ edit[e].seen = {} /\ edit[e].next = Len(list) + 1
      /\ rows' = {v \in rows : v.gone # e}
      /\ edit' = [edit EXCEPT ![e].pc = "committed"]
      /\ over' = over
      /\ edit \in [Edits -> Transaction] /\ list \in Seq(Ids)
  BY DEF Commit, Inv, TypeOK, Transaction
<1>2. /\ \A f \in Edits : f # e => edit'[f] = edit[f]
      /\ edit'[e].pc = "committed" /\ edit'[e].asked = list
  BY <1>1 DEF Transaction
<1>3. /\ Status[e] = "running" /\ Asked[e] = list
      /\ Status' = [Status EXCEPT ![e] = "committed"]
      /\ Asked' = Asked
  BY <1>1, <1>2 DEF Status, Asked, Running
<1>4. /\ \A w \in Writers : Committed(w)' <=> Committed(w) \/ w = e
      /\ ~Committed(e) /\ e \in Writers
  BY <1>1, <1>2 DEF Committed, Writers, Running
<1>5. \A v \in rows : /\ v.by \in Writers /\ v.role \in Roles
                      /\ v.gone \in Edits \cup {NoOne}
                      /\ v.gone = e <=> v.by \in over[e]
  BY <1>1 DEF Inv, TypeOK, Row, RowInv, EditInv
<1>6. edit[e].next - 1 = Len(list) /\ Len(list) \in Nat
  BY <1>1
<1>7. \A role \in Ids : Holds(e, role) <=> \E k \in 1..Len(list) : list[k] = role
  BY <1>1, <1>6 DEF Inv, EditInv
<1>8. /\ \A k \in 1..Len(list) : list[k] \in Roles
      /\ \A j, k \in 1..Len(list) : list[j] = list[k] => j = k
  BY <1>1, <1>6 DEF KeyInv, ProperSoFar
<1>9. ASSUME NEW g \in kept PROVE g[1] \notin {list[k] : k \in 1..Len(list)}
  <2>1. PICK u \in Current : g = Id(u)
    BY DEF Given
  <2>2. u \in rows /\ Committed(u.by) /\ g = <<u.role, u.by>> /\ u.by \notin over[e]
    BY <1>9, <2>1 DEF Current, Id
  <2>3. ASSUME Holds(e, u.role) PROVE FALSE
    <3>1. PICK v \in rows : v.by = e /\ v.role = u.role
      BY <2>3 DEF Holds
    <3>2. u # v /\ u.gone # v.by
      BY <1>4, <1>5, <2>2, <3>1
    <3>3. v.gone = u.by
      BY <2>2, <3>1, <3>2 DEF KeyInv, UniqueRole
    <3>4. v.gone \in Edits
      BY <1>5, <2>2, <3>1, <3>3 DEF Writers
    <3>5. Running(v.gone)
      BY <3>1, <3>4 DEF Inv, RowInv
    <3> QED BY <2>2, <3>3, <3>4, <3>5 DEF Committed, Running
  <2>4. u.role \in Ids
    BY <1>5, <2>2
  <2> QED BY <1>7, <2>2, <2>3, <2>4
<1>10. Given' = kept \cup put
  <2>1. Given' = {Id(v) : v \in Current'}
    BY DEF Given, Id
  <2>2. Current' = {v \in rows : v.gone # e /\ (Committed(v.by) \/ v.by = e)}
    BY <1>1, <1>4, <1>5 DEF Current
  <2>3. e \notin over[e]
    BY DEF Inv, OverInv
  <2>4. ASSUME NEW v \in Current' PROVE Id(v) \in kept \cup put
    <3>1. v \in rows /\ v.by \notin over[e] /\ (Committed(v.by) \/ v.by = e)
      BY <1>5, <2>2
    <3>2. CASE Committed(v.by)
      BY <3>1, <3>2 DEF Given, Current, Id
    <3>3. CASE v.by = e
      <4>1. Holds(e, v.role) /\ v.role \in Ids
        BY <1>5, <3>1, <3>3 DEF Holds
      <4> QED BY <1>7, <3>3, <4>1 DEF Id
    <3> QED BY <3>1, <3>2, <3>3
  <2>5. ASSUME NEW g \in kept PROVE \E v \in Current' : g = Id(v)
    <3>1. PICK v \in Current : g = Id(v)
      BY DEF Given
    <3> QED BY <1>5, <2>2, <2>5, <3>1 DEF Current, Id
  <2>6. ASSUME NEW k \in 1..Len(list) PROVE \E v \in Current' : <<list[k], e>> = Id(v)
    <3>1. Holds(e, list[k])
      BY <1>7, <1>8
    <3>2. PICK v \in rows : v.by = e /\ v.role = list[k]
      BY <3>1 DEF Holds
    <3> QED BY <1>5, <2>2, <2>3, <3>2 DEF Id
  <2> QED BY <2>1, <2>4, <2>5, <2>6
<1>11. Grants!Proper(list)
  BY <1>8 DEF Grants!Proper, Grants!Named
<1> QED
  BY <1>1, <1>3, <1>9, <1>10, <1>11 DEF Grants!Give, Grants!Named, Given, Status, Asked

LEMMA StepImplements ==
  ASSUME Inv, KeyInv, [Next]_vars PROVE [Grants!Next]_(Grants!vars)
<1>1. ASSUME NEW e \in Edits, NEW list \in Lists, StartClear(e, list) PROVE Grants!Next
  BY <1>1, BeginImplements DEF Grants!Next
<1>2. ASSUME NEW e \in Edits, Insert(e) \/ \E id \in edit[e].seen : ClearRow(e, id)
      PROVE  UNCHANGED Grants!vars
  <2>1. UNCHANGED <<Given, Status, Asked, over>>
    BY <1>2, UnseenSteps
  <2> QED BY <2>1 DEF Given, Status, Asked, Grants!vars
<1>3. ASSUME NEW e \in Edits, Refuse(e) \/ Break(e) PROVE Grants!Next
  BY <1>3, GiveUpImplements DEF Grants!Next
<1>4. ASSUME NEW e \in Edits, Commit(e) PROVE Grants!Next
  BY <1>4, GiveImplements DEF Grants!Next
<1>5. CASE UNCHANGED vars
  BY <1>5 DEF vars, Grants!vars, Current, Committed, Id
<1> QED BY <1>1, <1>2, <1>3, <1>4, <1>5 DEF Next

LEMMA InitImplements == Init => Grants!Init
<1> SUFFICES ASSUME Init PROVE Grants!Init
  OBVIOUS
<1> USE RolesAssumption
<1>1. /\ \A v \in rows : v.by = Registration
      /\ rows = {Fresh(role, Registration) : role \in InitialRoles}
      /\ \A role : Id(Fresh(role, Registration)) = <<role, Registration>>
  BY DEF Init, Fresh, Id
<1>2. Current = rows
  BY <1>1 DEF Current, Committed
<1>3. {Id(v) : v \in Current} = {<<role, Registration>> : role \in InitialRoles}
  BY <1>1, <1>2
<1> QED BY <1>3 DEF Init, Grants!Init

-----------------------------------------------------------------------------
\* The variables of SetUserRoles keep their types.
THEOREM RolesTypeCorrect == Spec => []TypeOK
<1>1. Inv => TypeOK
  BY DEF Inv
<1> QED BY <1>1, AlwaysInv, PTL

\* However many administrators edit one user's roles at a time, with whatever
\* lists, and wherever SetUserRoles breaks: no edit is ever seen in part.
THEOREM EditsAreWhole == Spec => []RolesAreOfLastEdits
  BY InvIsWhole, AlwaysInv, PTL

\* An edit that SetUserRoles starts after the others have committed decides alone.
THEOREM LaterEditDecides == Spec => []LastEditWins
  BY InvIsLast, AlwaysInv, PTL

\* SetUserRoles promises what RoleGrants says: to everybody else its statements
\* are one step, which takes what it found and gives its list, no role twice.
THEOREM EditsImplementGrants == Spec => GrantsSpec
<1>1. Inv /\ KeyInv /\ [Next]_vars => [Grants!Next]_(Grants!vars)
  BY StepImplements
<1> QED BY <1>1, InitImplements, AlwaysKeyInv, PTL DEF Spec, GrantsSpec, Grants!Spec
=============================================================================
