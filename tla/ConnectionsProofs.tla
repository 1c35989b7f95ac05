-------------------------- MODULE ConnectionsProofs --------------------------
(***************************************************************************)
(* What Connections promises for any number of connections, requests,       *)
(* configurations and secrets, and whatever the connectors return.          *)
(***************************************************************************)
EXTENDS Connections, TLAPS

-----------------------------------------------------------------------------
(* Classify.                                                                 *)

LEMMA MeaningTyped ==
    ASSUME NEW cause PROVE Meaning(cause) \in Codes
<1> DEFINE known == {code \in Codes : <<cause[2], code>> \in Table[cause[1]]}
<1>1. CASE known = {}
  BY <1>1 DEF Meaning, Codes
<1>2. CASE known # {}
  <2>1. (CHOOSE code \in known : TRUE) \in known
    BY <1>2
  <2>2. QED
    BY <1>2, <2>1 DEF Meaning
<1>3. QED
  BY <1>1, <1>2

LEMMA ClassifyTyped ==
    ASSUME NEW e PROVE Classify(e) \in Codes
<1> DEFINE hinted == {c \in Codes \cap e.words :
                        \A d \in e.words : Place(Phrases, c) <= Place(Phrases, d)}
<1>1. CASE e.chain # {}
  BY <1>1, MeaningTyped DEF Classify
<1>2. CASE e.chain = {} /\ hinted # {}
  <2>1. (CHOOSE c \in hinted : TRUE) \in hinted
    BY <1>2
  <2>2. hinted \subseteq Codes
    OBVIOUS
  <2>3. Classify(e) = CHOOSE c \in hinted : TRUE
    BY <1>2 DEF Classify
  <2>4. QED
    BY <2>1, <2>2, <2>3
<1>3. CASE e.chain = {} /\ hinted = {}
  BY <1>3 DEF Classify, Codes
<1>4. QED
  BY <1>1, <1>2, <1>3

\* The only typed cause of an error decides its code, whatever the message.
LEMMA TypedCauseDecides ==
    ASSUME NEW e, NEW cause, e.chain = {cause}
    PROVE  Classify(e) = Meaning(cause)
<1>1. \E c \in {cause} : \A d \in {cause} \ {c} : Place(Types, c[1]) <= Place(Types, d[1])
  OBVIOUS
<1>2. Foremost({cause}) = cause
  BY <1>1 DEF Foremost
<1>3. QED
  BY <1>2 DEF Classify

-----------------------------------------------------------------------------
(* The inductive invariant.                                                  *)

\* A row: StatusSpeaksOfStored, RowIsCoherent and UnhealthyHasCause for it.
Speaks(w) ==
    w.state = "stored" /\ w.status # "unverified" /\ w.crossed = "none"
       => w.dialed = <<w.config, w.secret>>

Coherent(w) ==
    /\ w.status = "unhealthy" <=> w.code # ""
    /\ w.status = "unhealthy" <=> w.cause # NoError
    /\ \A cause \in w.cause.chain : w.cause.chain = {cause} => w.code = Meaning(cause)
    /\ w.cause # Canceled

\* A request under way and the row of its connection: what it has read is what
\* is stored, unless an edit has overtaken it.
Underway(q, w) ==
    q.pc \in {"secret", "dial", "record"} /\ q.op # "adhoc" =>
       /\ w.state # "absent"
       /\ w.state = "stored" /\ q.edited = "none" =>
             /\ q.config = w.config
             /\ q.pc # "secret" => q.secret = w.secret

Local(q) ==
    /\ q.pc \in {"get", "secret", "record"} => q.op # "adhoc"
    /\ q.pc # "idle" /\ q.op # "adhoc" => q.key \in Ids
    /\ q.pc = "record" /\ q.err = Canceled => q.client = "gone"

RowInv == \A c \in Ids : Speaks(row[c]) /\ Coherent(row[c])
ReqInv == \A r \in Requests : Local(req[r]) /\ (req[r].key \in Ids => Underway(req[r], row[req[r].key]))

Inv == TypeOK /\ RowInv /\ ReqInv

LEMMA Invariants ==
    Inv => StatusSpeaksOfStored /\ RowIsCoherent /\ UnhealthyHasCause
<1> SUFFICES ASSUME Inv PROVE StatusSpeaksOfStored /\ RowIsCoherent /\ UnhealthyHasCause
  OBVIOUS
<1>1. StatusSpeaksOfStored
  BY DEF Inv, RowInv, Speaks, StatusSpeaksOfStored
<1>2. RowIsCoherent
  BY DEF Inv, RowInv, Coherent, RowIsCoherent
<1>3. UnhealthyHasCause
  BY DEF Inv, RowInv, Coherent, UnhealthyHasCause
<1>4. QED
  BY <1>1, <1>2, <1>3

-----------------------------------------------------------------------------
(* Typing.                                                                   *)

LEMMA RowTyped ==
    ASSUME NEW state \in {"absent", "stored", "deleted"}, NEW config \in Configs,
           NEW secret \in Stored, NEW status \in {"unverified", "healthy", "unhealthy"},
           NEW code \in Codes \cup {""}, NEW dialed \in Configs \X Stored,
           NEW cause \in Errors \cup {NoError, Canceled}, NEW crossed \in Edits
    PROVE  [state |-> state, config |-> config, secret |-> secret, status |-> status,
            code |-> code, dialed |-> dialed, cause |-> cause, crossed |-> crossed] \in Rows
BY DEF Rows

LEMMA LocalTyped ==
    ASSUME NEW pc \in {"idle", "get", "secret", "dial", "record"},
           NEW op \in {"test", "query", "adhoc"}, NEW key \in Keys,
           NEW config \in Configs, NEW secret \in Stored,
           NEW err \in Errors \cup {NoError, Canceled}, NEW client \in {"there", "gone"},
           NEW edited \in Edits
    PROVE  [pc |-> pc, op |-> op, key |-> key, config |-> config, secret |-> secret,
            err |-> err, client |-> client, edited |-> edited] \in Locals
BY DEF Locals

LEMMA RowFields ==
    ASSUME TypeOK, NEW c \in Ids
    PROVE  /\ row[c] \in Rows
           /\ row[c].state \in {"absent", "stored", "deleted"}
           /\ row[c].config \in Configs /\ row[c].secret \in Stored
           /\ row[c].status \in {"unverified", "healthy", "unhealthy"}
           /\ row[c].code \in Codes \cup {""} /\ row[c].dialed \in Configs \X Stored
           /\ row[c].cause \in Errors \cup {NoError, Canceled} /\ row[c].crossed \in Edits
<1>1. row[c] \in Rows
  BY DEF TypeOK
<1>2. QED
  BY <1>1 DEF Rows

LEMMA LocalFields ==
    ASSUME TypeOK, NEW r \in Requests
    PROVE  /\ req[r] \in Locals
           /\ req[r].pc \in {"idle", "get", "secret", "dial", "record"}
           /\ req[r].op \in {"test", "query", "adhoc"} /\ req[r].key \in Keys
           /\ req[r].config \in Configs /\ req[r].secret \in Stored
           /\ req[r].err \in Errors \cup {NoError, Canceled}
           /\ req[r].client \in {"there", "gone"} /\ req[r].edited \in Edits
<1>1. req[r] \in Locals
  BY DEF TypeOK
<1>2. QED
  BY <1>1 DEF Locals

LEMMA Defaults ==
    AnyConfig \in Configs /\ Idle \in Locals
<1>1. AnyConfig \in Configs
  BY ConnectionsAssumption DEF AnyConfig
<1>2. (CHOOSE k \in Keys : TRUE) \in Keys
  BY ConnectionsAssumption DEF Keys
<1>3. "none" \in Stored /\ "none" \in Edits
  BY DEF Stored, Edits
<1>4. QED
  BY <1>1, <1>2, <1>3, LocalTyped DEF Idle

LEMMA UnverifiedFacts ==
    ASSUME NEW state \in {"absent", "stored", "deleted"}, NEW config \in Configs,
           NEW secret \in Stored
    PROVE  LET w == Unverified(state, config, secret)
           IN  /\ w \in Rows /\ Speaks(w) /\ Coherent(w)
               /\ w.state = state /\ w.config = config /\ w.secret = secret
<1> DEFINE w == Unverified(state, config, secret)
<1>1. w \in Rows
  <2>1. "none" \in Edits /\ <<config, secret>> \in Configs \X Stored
    BY DEF Edits
  <2>2. QED
    BY <2>1, RowTyped DEF Unverified
<1>2. Speaks(w)
  BY DEF Speaks, Unverified
<1>3. Coherent(w)
  <2>1. NoError.chain = {} /\ Canceled.chain # {}
    BY DEF NoError, Canceled
  <2>2. NoError # Canceled
    BY <2>1
  <2>3. w.status = "unverified" /\ w.code = "" /\ w.cause = NoError
    BY DEF Unverified
  <2>4. QED
    BY <2>1, <2>2, <2>3 DEF Coherent
<1>4. QED
  BY <1>1, <1>2, <1>3 DEF Unverified

-----------------------------------------------------------------------------
(* The steps.                                                                *)

\* A step of one goroutine that changes no row.
LEMMA Moves ==
    ASSUME Inv, NEW r \in Requests, NEW q \in Locals,
           req' = [req EXCEPT ![r] = q], UNCHANGED row,
           tokens' \in [Keys -> 0..Burst],
           Local(q), q.key \in Ids => Underway(q, row[q.key])
    PROVE  Inv'
<1>1. TypeOK'
  BY DEF Inv, TypeOK
<1>2. RowInv'
  BY DEF Inv, RowInv
<1>3. ASSUME NEW p \in Requests
      PROVE  Local(req[p])' /\ (req'[p].key \in Ids => Underway(req'[p], row'[req'[p].key]))
  <2>1. CASE p = r
    <3>1. req'[p] = q
      BY <2>1 DEF Inv, TypeOK
    <3>2. QED
      BY <3>1
  <2>2. CASE p # r
    <3>1. req'[p] = req[p]
      BY <2>2 DEF Inv, TypeOK
    <3>2. QED
      BY <3>1 DEF Inv, ReqInv
  <2>3. QED
    BY <2>1, <2>2
<1>4. ReqInv'
  BY <1>3 DEF ReqInv
<1>5. QED
  BY <1>1, <1>2, <1>4 DEF Inv

LEMMA EndsKeeps ==
    ASSUME Inv, NEW r \in Requests, Ends(r), UNCHANGED <<row, tokens>>
    PROVE  Inv'
<1>1. Idle \in Locals /\ Local(Idle)
  BY Defaults DEF Local, Idle
<1>2. Idle.key \in Ids => Underway(Idle, row[Idle.key])
  BY DEF Underway, Idle
<1>3. tokens' \in [Keys -> 0..Burst]
  BY DEF Inv, TypeOK
<1>4. QED
  BY <1>1, <1>2, <1>3, Moves DEF Ends

LEMMA BeginKeeps ==
    ASSUME Inv, NEW r \in Requests, NEW op \in {"test", "query", "adhoc"}, NEW k \in Keys,
           NEW pc \in {"get", "dial"}, NEW config \in Configs, NEW secret \in Stored,
           Begin(r, op, k, pc, config, secret),
           (pc = "get" /\ op # "adhoc" /\ k \in Ids) \/ (pc = "dial" /\ op = "adhoc")
    PROVE  Inv'
<1> DEFINE q == [pc |-> pc, op |-> op, key |-> k, config |-> config, secret |-> secret,
                 err |-> NoError, client |-> "there", edited |-> "none"]
<1>1. q \in Locals
  BY LocalTyped DEF Edits
<1>2. Local(q) /\ (q.key \in Ids => Underway(q, row[q.key]))
  BY DEF Local, Underway
<1>3. tokens' \in [Keys -> 0..Burst]
  <2>1. tokens[k] \in 0..Burst /\ tokens[k] > 0 /\ Burst \in Nat
    BY ConnectionsAssumption DEF Begin, Allow, Inv, TypeOK
  <2>2. tokens[k] - 1 \in 0..Burst
    BY <2>1
  <2>3. QED
    BY <2>2 DEF Begin, Allow, Inv, TypeOK
<1>4. req' = [req EXCEPT ![r] = q] /\ UNCHANGED row
  BY DEF Begin
<1>5. QED
  BY <1>1, <1>2, <1>3, <1>4, Moves

LEMMA ReadsKeep ==
    ASSUME Inv, NEW r \in Requests, GetRow(r) \/ GetSecret(r)
    PROVE  Inv'
<1> DEFINE k == req[r].key
<1>1. /\ req[r].op # "adhoc" /\ k \in Ids /\ row[k].state = "stored"
      /\ req[r].client = "there" /\ Underway(req[r], row[k])
  BY DEF GetRow, GetSecret, Reads, Inv, ReqInv, Local
<1>2. row[k].config \in Configs /\ row[k].secret \in Stored
  BY <1>1, RowFields DEF Inv
<1>3. tokens' \in [Keys -> 0..Burst] /\ UNCHANGED row
  BY DEF GetRow, GetSecret, Inv, TypeOK
<1>4. CASE GetRow(r)
  <2> DEFINE q == [req[r] EXCEPT !.pc = "secret", !.config = row[k].config]
  <2>1. q \in Locals
    BY <1>2, LocalFields DEF Locals, Inv
  <2>2. req' = [req EXCEPT ![r] = q]
    BY <1>4 DEF GetRow
  <2>3. req[r] \in Locals
    BY LocalFields DEF Inv
  <2>4. q.pc = "secret" /\ q.op = req[r].op /\ q.key = k /\ q.config = row[k].config
    BY <2>3 DEF Locals
  <2>5. Local(q) /\ Underway(q, row[q.key])
    BY <1>1, <2>4 DEF Local, Underway
  <2>6. QED
    BY <1>3, <2>1, <2>2, <2>5, Moves
<1>5. CASE GetSecret(r)
  <2> DEFINE q == [req[r] EXCEPT !.pc = "dial", !.secret = row[k].secret]
  <2>1. q \in Locals
    BY <1>2, LocalFields DEF Locals, Inv
  <2>2. req' = [req EXCEPT ![r] = q]
    BY <1>5 DEF GetSecret
  <2>3. req[r] \in Locals /\ req[r].pc = "secret"
    BY <1>5, LocalFields DEF Inv, GetSecret, Reads
  <2>4. /\ q.pc = "dial" /\ q.op = req[r].op /\ q.key = k /\ q.config = req[r].config
        /\ q.secret = row[k].secret /\ q.edited = req[r].edited
    BY <2>3 DEF Locals
  <2>5. Local(q) /\ Underway(q, row[q.key])
    BY <1>1, <2>3, <2>4 DEF Local, Underway
  <2>6. QED
    BY <1>3, <2>1, <2>2, <2>5, Moves
<1>6. QED
  BY <1>4, <1>5

LEMMA DialTestKeeps ==
    ASSUME Inv, NEW r \in Requests, NEW err \in Errors \cup {NoError, Canceled},
           DialTest(r, err)
    PROVE  Inv'
<1> DEFINE q == [req[r] EXCEPT !.pc = "record", !.err = err]
<1>1. req[r] \in Locals /\ req[r].pc = "dial" /\ req[r].op = "test"
  BY LocalFields DEF Inv, DialTest
<1>2. q \in Locals
  BY <1>1 DEF Locals
<1>3. /\ q.pc = "record" /\ q.op = "test" /\ q.key = req[r].key /\ q.config = req[r].config
      /\ q.secret = req[r].secret /\ q.edited = req[r].edited /\ q.err = err
      /\ q.client = req[r].client
  BY <1>1 DEF Locals
<1>4. Local(q) /\ (q.key \in Ids => Underway(q, row[q.key]))
  <2>1. Local(req[r]) /\ (req[r].key \in Ids => Underway(req[r], row[req[r].key]))
    BY DEF Inv, ReqInv
  <2>2. Local(q)
    BY <1>1, <1>3, <2>1 DEF Local, DialTest
  <2>3. QED
    BY <1>1, <1>3, <2>1, <2>2 DEF Underway
<1>5. tokens' \in [Keys -> 0..Burst] /\ UNCHANGED row /\ req' = [req EXCEPT ![r] = q]
  BY DEF DialTest, Inv, TypeOK
<1>6. QED
  BY <1>2, <1>4, <1>5, Moves

LEMMA ClientLeavesKeeps ==
    ASSUME Inv, NEW r \in Requests, ClientLeaves(r)
    PROVE  Inv'
<1> DEFINE q == [req[r] EXCEPT !.client = "gone"]
<1>1. req[r] \in Locals
  BY LocalFields DEF Inv
<1>2. q \in Locals
  BY <1>1 DEF Locals
<1>3. /\ q.pc = req[r].pc /\ q.op = req[r].op /\ q.key = req[r].key
      /\ q.config = req[r].config /\ q.secret = req[r].secret
      /\ q.edited = req[r].edited /\ q.err = req[r].err /\ q.client = "gone"
  BY <1>1 DEF Locals
<1>4. Local(req[r]) /\ (req[r].key \in Ids => Underway(req[r], row[req[r].key]))
  BY DEF Inv, ReqInv
<1>5. Local(q)
  BY <1>3, <1>4 DEF Local
<1>6. q.key \in Ids => Underway(q, row[q.key])
  BY <1>3, <1>4 DEF Underway
<1>7. tokens' \in [Keys -> 0..Burst] /\ UNCHANGED row /\ req' = [req EXCEPT ![r] = q]
  BY DEF ClientLeaves, Inv, TypeOK
<1>8. QED
  BY <1>2, <1>5, <1>6, <1>7, Moves

\* A step that writes one row.
LEMMA Writes ==
    ASSUME Inv, NEW c \in Ids, NEW w \in Rows, Speaks(w), Coherent(w),
           row' = [row EXCEPT ![c] = w], UNCHANGED tokens,
           req' \in [Requests -> Locals],
           \A r \in Requests :
              /\ Local(req'[r])
              /\ req'[r].key = c => Underway(req'[r], w)
              /\ req'[r].key \in Ids \ {c} => Underway(req'[r], row[req'[r].key])
    PROVE  Inv'
<1>1. TypeOK'
  BY DEF Inv, TypeOK
<1>2. \A d \in Ids : row'[d] = IF d = c THEN w ELSE row[d]
  BY DEF Inv, TypeOK
<1>3. RowInv'
  BY <1>2 DEF Inv, RowInv
<1>4. ASSUME NEW r \in Requests
      PROVE  Local(req'[r]) /\ (req'[r].key \in Ids => Underway(req'[r], row'[req'[r].key]))
  <2>1. CASE req'[r].key = c
    BY <1>2, <2>1
  <2>2. CASE req'[r].key # c
    BY <1>2, <2>2
  <2>3. QED
    BY <2>1, <2>2
<1>5. ReqInv'
  BY <1>4 DEF ReqInv
<1>6. QED
  BY <1>1, <1>3, <1>5 DEF Inv

LEMMA CreateKeeps ==
    ASSUME Inv, NEW c \in Ids, NEW config \in Configs, NEW secret \in Stored,
           CreateConnection(c, config, secret)
    PROVE  Inv'
<1> DEFINE w == Unverified("stored", config, secret)
<1>1. w \in Rows /\ Speaks(w) /\ Coherent(w)
  BY UnverifiedFacts
<1>2. ASSUME NEW r \in Requests
      PROVE  /\ Local(req[r])
             /\ req[r].key = c => Underway(req[r], w)
             /\ req[r].key \in Ids \ {c} => Underway(req[r], row[req[r].key])
  <2>1. Local(req[r]) /\ (req[r].key \in Ids => Underway(req[r], row[req[r].key]))
    BY DEF Inv, ReqInv
  <2>2. req[r].key = c => Underway(req[r], w)
    BY <2>1 DEF CreateConnection, Underway
  <2>3. QED
    BY <2>1, <2>2
<1>3. row' = [row EXCEPT ![c] = w] /\ UNCHANGED <<req, tokens>>
  BY DEF CreateConnection
<1>4. req' \in [Requests -> Locals]
  BY <1>3 DEF Inv, TypeOK
<1>5. QED
  BY <1>1, <1>2, <1>3, <1>4, Writes

LEMMA DeleteKeeps ==
    ASSUME Inv, NEW c \in Ids, DeleteConnection(c)
    PROVE  Inv'
<1> DEFINE w == [row[c] EXCEPT !.state = "deleted"]
<1>1. row[c] \in Rows
  BY RowFields DEF Inv
<1>2. /\ w \in Rows /\ w.state = "deleted" /\ w.status = row[c].status
      /\ w.code = row[c].code /\ w.cause = row[c].cause
  BY <1>1 DEF Rows
<1>3. Speaks(w) /\ Coherent(w)
  BY <1>2 DEF Inv, RowInv, Speaks, Coherent
<1>4. ASSUME NEW r \in Requests
      PROVE  /\ Local(req[r])
             /\ req[r].key = c => Underway(req[r], w)
             /\ req[r].key \in Ids \ {c} => Underway(req[r], row[req[r].key])
  <2>1. Local(req[r]) /\ (req[r].key \in Ids => Underway(req[r], row[req[r].key]))
    BY DEF Inv, ReqInv
  <2>2. req[r].key = c => Underway(req[r], w)
    BY <1>2 DEF Underway
  <2>3. QED
    BY <2>1, <2>2
<1>5. row' = [row EXCEPT ![c] = w] /\ UNCHANGED <<req, tokens>>
  BY DEF DeleteConnection
<1>6. req' \in [Requests -> Locals]
  BY <1>5 DEF Inv, TypeOK
<1>7. QED
  BY <1>2, <1>3, <1>4, <1>5, <1>6, Writes

\* An edit marks the requests that have read the row.
LEMMA OvertakenFacts ==
    ASSUME Inv, NEW c \in Ids, NEW w, w.state = "stored", NEW r \in Requests
    PROVE  LET q == Overtaken(c)[r]
           IN  /\ q \in Locals /\ Local(q)
               /\ q.key = c => Underway(q, w)
               /\ q.key \in Ids \ {c} => Underway(q, row[q.key])
<1> DEFINE q == Overtaken(c)[r]
<1>1. req[r] \in Locals /\ req[r].edited \in Edits
  BY LocalFields DEF Inv
<1>2. Local(req[r]) /\ (req[r].key \in Ids => Underway(req[r], row[req[r].key]))
  BY DEF Inv, ReqInv
<1>3. CASE req[r].key # c \/ req[r].edited # "none"
  <2>1. q = req[r]
    BY <1>3 DEF Overtaken
  <2>2. q.key = c => Underway(q, w)
    BY <1>2, <1>3, <2>1 DEF Underway
  <2>3. QED
    BY <1>1, <1>2, <2>1, <2>2
<1>4. ASSUME req[r].key = c, NEW e \in {"between", "after"}, q = [req[r] EXCEPT !.edited = e]
      PROVE  /\ q \in Locals /\ Local(q)
             /\ q.key = c => Underway(q, w)
             /\ q.key \in Ids \ {c} => Underway(q, row[q.key])
  <2>1. [req[r] EXCEPT !.edited = e] \in Locals
    BY <1>1 DEF Locals, Edits
  <2>2. /\ q.pc = req[r].pc /\ q.op = req[r].op /\ q.key = req[r].key
        /\ q.config = req[r].config /\ q.secret = req[r].secret
        /\ q.edited = e /\ q.err = req[r].err /\ q.client = req[r].client
    BY <1>1, <1>4 DEF Locals
  <2>3. Local(q)
    BY <1>2, <2>2 DEF Local
  <2>4. Underway(q, w)
    BY <2>2 DEF Underway
  <2>5. QED
    BY <1>4, <2>1, <2>2, <2>3, <2>4
<1>5. CASE req[r].key = c /\ req[r].edited = "none" /\ req[r].pc = "secret"
  <2>1. q = [req[r] EXCEPT !.edited = "between"]
    BY <1>5 DEF Overtaken
  <2>2. QED
    BY <1>4, <1>5, <2>1
<1>6. CASE req[r].key = c /\ req[r].edited = "none" /\ req[r].pc \in {"dial", "record"}
  <2>1. q = [req[r] EXCEPT !.edited = "after"]
    BY <1>6 DEF Overtaken
  <2>2. QED
    BY <1>4, <1>6, <2>1
<1>7. CASE req[r].key = c /\ req[r].edited = "none" /\ req[r].pc \notin {"secret", "dial", "record"}
  <2>1. q = req[r]
    BY <1>7 DEF Overtaken
  <2>2. q.key = c => Underway(q, w)
    BY <1>7, <2>1 DEF Underway
  <2>3. QED
    BY <1>1, <1>2, <2>1, <2>2
<1>8. QED
  BY <1>3, <1>5, <1>6, <1>7

LEMMA UpdateKeeps ==
    ASSUME Inv, NEW c \in Ids, NEW config \in Configs, NEW given \in Given,
           UpdateConnection(c, config, given)
    PROVE  Inv'
<1> DEFINE secret == IF given = "same" THEN row[c].secret ELSE given
           w == Unverified("stored", config, secret)
<1>1. row[c].secret \in Stored
  BY RowFields DEF Inv
<1>2. secret \in Stored
  BY <1>1 DEF Given
<1>3. w \in Rows /\ Speaks(w) /\ Coherent(w) /\ w.state = "stored"
  BY <1>2, UnverifiedFacts
<1>4. row' = [row EXCEPT ![c] = w] /\ UNCHANGED tokens /\ req' = Overtaken(c)
  BY DEF UpdateConnection, Reset
<1>5. \A r \in Requests :
         /\ req'[r] \in Locals /\ Local(req'[r])
         /\ req'[r].key = c => Underway(req'[r], w)
         /\ req'[r].key \in Ids \ {c} => Underway(req'[r], row[req'[r].key])
  BY <1>3, <1>4, OvertakenFacts
<1>6. req' \in [Requests -> Locals]
  <2>1. req' = [r \in Requests |-> req'[r]]
    BY <1>4 DEF Overtaken
  <2>2. QED
    BY <1>5, <2>1
<1>7. QED
  BY <1>3, <1>4, <1>5, <1>6, Writes

LEMMA RecordKeeps ==
    ASSUME Inv, NEW r \in Requests, SetTestResult(r)
    PROVE  Inv'
<1> DEFINE c == req[r].key
           w == Result(r)
<1>1. /\ req[r].pc = "record" /\ req[r].op # "adhoc" /\ c \in Ids
      /\ req[r].err # Canceled /\ Underway(req[r], row[c])
  BY DEF SetTestResult, Inv, ReqInv, Local
<1>2. CASE row[c].state # "stored"
  <2>1. Ends(r) /\ UNCHANGED <<row, tokens>>
    BY <1>2 DEF SetTestResult
  <2>2. QED
    BY <2>1, EndsKeeps
<1>3. CASE row[c].state = "stored"
  <2>1. /\ req[r].config \in Configs /\ req[r].secret \in Stored /\ req[r].edited \in Edits
        /\ req[r].err \in Errors \cup {NoError, Canceled}
        /\ row[c].config \in Configs /\ row[c].secret \in Stored
    BY <1>1, LocalFields, RowFields DEF Inv
  <2>2. Classify(req[r].err) \in Codes
    BY ClassifyTyped
  <2>3. w \in Rows
    <3> DEFINE status == IF req[r].err = NoError THEN "healthy" ELSE "unhealthy"
               code == IF req[r].err = NoError THEN "" ELSE Classify(req[r].err)
    <3>1. status \in {"unverified", "healthy", "unhealthy"} /\ code \in Codes \cup {""}
      BY <2>2
    <3>2. <<req[r].config, req[r].secret>> \in Configs \X Stored
      BY <2>1
    <3>3. w = [state |-> "stored", config |-> row[c].config, secret |-> row[c].secret,
               status |-> status, code |-> code, dialed |-> <<req[r].config, req[r].secret>>,
               cause |-> req[r].err, crossed |-> req[r].edited]
      BY DEF Result
    <3> HIDE DEF status, code, w
    <3>4. QED
      BY <2>1, <3>1, <3>2, <3>3, RowTyped
  <2>4. Speaks(w)
    BY <1>1, <1>3 DEF Speaks, Result, Underway
  <2>5. Coherent(w)
    <3>1. /\ w.status = (IF req[r].err = NoError THEN "healthy" ELSE "unhealthy")
          /\ w.code = (IF req[r].err = NoError THEN "" ELSE Classify(req[r].err))
          /\ w.cause = req[r].err
      BY DEF Result
    <3>2. Classify(req[r].err) # ""
      BY <2>2 DEF Codes
    <3>3. NoError.chain = {}
      BY DEF NoError
    <3>4. \A cause : req[r].err.chain = {cause} => Classify(req[r].err) = Meaning(cause)
      BY TypedCauseDecides
    <3> HIDE DEF w
    <3>5. CASE req[r].err = NoError
      BY <1>1, <3>1, <3>3, <3>5 DEF Coherent
    <3>6. CASE req[r].err # NoError
      BY <1>1, <3>1, <3>2, <3>4, <3>6 DEF Coherent
    <3>7. QED
      BY <3>5, <3>6
  <2>6. /\ w.state = "stored" /\ w.config = row[c].config /\ w.secret = row[c].secret
    BY DEF Result
  <2>7. Idle \in Locals /\ Local(Idle) /\ Idle.pc = "idle"
    BY Defaults DEF Local, Idle
  <2>8. row' = [row EXCEPT ![c] = w] /\ UNCHANGED tokens /\ req' = [req EXCEPT ![r] = Idle]
    BY <1>3 DEF SetTestResult, Ends
  <2>9. req' \in [Requests -> Locals]
    BY <2>7, <2>8 DEF Inv, TypeOK
  <2>10. ASSUME NEW p \in Requests
         PROVE  /\ Local(req'[p])
                /\ req'[p].key = c => Underway(req'[p], w)
                /\ req'[p].key \in Ids \ {c} => Underway(req'[p], row[req'[p].key])
    <3>1. CASE p = r
      <4>1. req'[p] = Idle
        BY <2>8, <3>1 DEF Inv, TypeOK
      <4>2. QED
        BY <2>7, <4>1 DEF Underway
    <3>2. CASE p # r
      <4>1. req'[p] = req[p]
        BY <2>8, <3>2 DEF Inv, TypeOK
      <4>2. Local(req[p]) /\ (req[p].key \in Ids => Underway(req[p], row[req[p].key]))
        BY DEF Inv, ReqInv
      <4> HIDE DEF w
      <4>3. req[p].key = c => Underway(req[p], w)
        BY <1>1, <1>3, <2>6, <4>2 DEF Underway
      <4>4. QED
        BY <4>1, <4>2, <4>3
    <3>3. QED
      BY <3>1, <3>2
  <2>11. QED
    BY <1>1, <2>3, <2>4, <2>5, <2>8, <2>9, <2>10, Writes
<1>4. QED
  BY <1>2, <1>3

LEMMA RefillKeeps ==
    ASSUME Inv, NEW k \in Keys, Refill(k)
    PROVE  Inv'
<1>1. tokens[k] \in 0..Burst /\ tokens[k] < Burst /\ Burst \in Nat
  BY ConnectionsAssumption DEF Refill, Inv, TypeOK
<1>2. tokens[k] + 1 \in 0..Burst
  BY <1>1
<1>3. TypeOK'
  BY <1>2 DEF Refill, Inv, TypeOK
<1>4. RowInv' /\ ReqInv'
  BY DEF Refill, Inv, RowInv, ReqInv
<1>5. QED
  BY <1>3, <1>4 DEF Inv

LEMMA RestartKeeps ==
    ASSUME Inv, Restart
    PROVE  Inv'
<1>1. Idle \in Locals /\ Local(Idle)
  BY Defaults DEF Local, Idle
<1>2. [k \in Keys |-> Burst] \in [Keys -> 0..Burst]
  BY ConnectionsAssumption
<1>3. TypeOK'
  BY <1>1, <1>2 DEF Restart, Inv, TypeOK
<1>4. RowInv'
  BY DEF Restart, Inv, RowInv
<1>5. \A r \in Requests : req'[r] = Idle
  BY DEF Restart
<1>6. ReqInv'
  BY <1>1, <1>5 DEF ReqInv, Underway, Idle
<1>7. QED
  BY <1>3, <1>4, <1>6 DEF Inv

-----------------------------------------------------------------------------
LEMMA InitEstablishes ==
    Init => Inv
<1> SUFFICES ASSUME Init PROVE Inv
  OBVIOUS
<1>1. AnyConfig \in Configs /\ Idle \in Locals /\ "none" \in Stored
  BY Defaults DEF Stored
<1>2. \A c \in Ids : row[c] \in Rows /\ Speaks(row[c]) /\ Coherent(row[c])
  BY <1>1, UnverifiedFacts DEF Init
<1>3. [k \in Keys |-> Burst] \in [Keys -> 0..Burst]
  BY ConnectionsAssumption
<1>4. TypeOK
  BY <1>1, <1>2, <1>3 DEF Init, TypeOK
<1>5. RowInv
  BY <1>2 DEF RowInv
<1>6. ReqInv
  BY DEF Init, ReqInv, Local, Underway, Idle
<1>7. QED
  BY <1>4, <1>5, <1>6 DEF Inv

LEMMA StepKeeps ==
    Inv /\ [Next]_vars => Inv'
<1> SUFFICES ASSUME Inv, [Next]_vars PROVE Inv'
  OBVIOUS
<1>1. CASE UNCHANGED vars
  BY <1>1 DEF vars, Inv, TypeOK, RowInv, ReqInv
<1>2. ASSUME NEW r \in Requests, RequestStep(r) PROVE Inv'
  <2>1. AnyConfig \in Configs /\ "none" \in Stored
    BY Defaults DEF Stored
  <2>2. ASSUME NEW c \in Ids, TestConnection(r, c) \/ Query(r, c) PROVE Inv'
    <3>1. c \in Keys
      BY DEF Keys
    <3>2. CASE TestConnection(r, c)
      BY <2>1, <3>1, <3>2, BeginKeeps DEF TestConnection
    <3>3. CASE Query(r, c)
      BY <2>1, <3>1, <3>3, BeginKeeps DEF Query
    <3>4. QED
      BY <2>2, <3>2, <3>3
  <2>3. ASSUME NEW a \in Actors, NEW config \in Configs, NEW secret \in Stored,
               QueryAdhoc(r, a, config, secret)
        PROVE  Inv'
    BY <2>3, BeginKeeps DEF QueryAdhoc, Keys
  <2>4. CASE Refused(r) \/ CannotDecrypt(r) \/ DialQuery(r) \/ ResultLost(r)
    BY <2>4, EndsKeeps DEF Refused, CannotDecrypt, DialQuery, ResultLost
  <2>5. CASE GetRow(r) \/ GetSecret(r)
    BY <2>5, ReadsKeep
  <2>6. ASSUME NEW err \in Errors \cup {NoError, Canceled}, DialTest(r, err) PROVE Inv'
    BY <2>6, DialTestKeeps
  <2>7. CASE SetTestResult(r)
    BY <2>7, RecordKeeps
  <2>8. CASE ClientLeaves(r)
    BY <2>8, ClientLeavesKeeps
  <2>9. QED
    BY <1>2, <2>2, <2>3, <2>4, <2>5, <2>6, <2>7, <2>8 DEF RequestStep
<1>3. ASSUME NEW c \in Ids, EditStep(c) PROVE Inv'
  BY <1>3, CreateKeeps, UpdateKeeps, DeleteKeeps DEF EditStep
<1>4. ASSUME NEW k \in Keys, Refill(k) PROVE Inv'
  BY <1>4, RefillKeeps
<1>5. CASE Restart
  BY <1>5, RestartKeeps
<1>6. QED
  BY <1>1, <1>2, <1>3, <1>4, <1>5 DEF Next

LEMMA Invariant == Spec => []Inv
BY InitEstablishes, StepKeeps, PTL DEF Spec

\* Every variable stays in its domain.
THEOREM ConnectionsTypeCorrect == Spec => []TypeOK
<1>1. Inv => TypeOK
  BY DEF Inv
<1>2. QED
  BY <1>1, Invariant, PTL

\* The status of a connection is about the configuration and the secret that
\* are stored, unless an edit overtook the test that recorded it.
THEOREM StatusIsOfStored == Spec => []StatusSpeaksOfStored
BY Invariants, Invariant, PTL

\* The columns written by the statements of edits and tests agree in every row.
THEOREM RowsAreCoherent == Spec => []RowIsCoherent
BY Invariants, Invariant, PTL

\* A client that leaves does not make a connection unhealthy.
THEOREM LeavingIsNoIllness == Spec => []UnhealthyHasCause
BY Invariants, Invariant, PTL

\* No request or test brings a deleted connection back.
LEMMA StepKeepsDeleted ==
    ASSUME Inv, [Next]_vars, NEW c \in Ids, row[c].state = "deleted"
    PROVE  row'[c] = row[c]
<1>1. CASE row' = row
  BY <1>1
<1>2. ASSUME NEW r \in Requests, SetTestResult(r) PROVE row'[c] = row[c]
  <2>1. req[r].key \in Ids
    BY <1>2 DEF SetTestResult, Inv, ReqInv, Local
  <2>2. CASE req[r].key = c
    BY <1>2, <2>2 DEF SetTestResult
  <2>3. CASE req[r].key # c
    BY <1>2, <2>1, <2>3 DEF SetTestResult, Inv, TypeOK
  <2>4. QED
    BY <2>2, <2>3
<1>3. ASSUME NEW d \in Ids, EditStep(d) PROVE row'[c] = row[c]
  <2>1. d # c
    BY <1>3 DEF EditStep, CreateConnection, UpdateConnection, DeleteConnection
  <2>2. \E w : row' = [row EXCEPT ![d] = w]
    BY <1>3 DEF EditStep, CreateConnection, UpdateConnection, DeleteConnection
  <2>3. QED
    BY <2>1, <2>2 DEF Inv, TypeOK
<1>4. ASSUME NEW r \in Requests, RequestStep(r), ~SetTestResult(r) PROVE row' = row
  BY <1>4 DEF RequestStep, TestConnection, Query, QueryAdhoc, Begin, Refused, GetRow, GetSecret,
              CannotDecrypt, DialQuery, DialTest, ResultLost, ClientLeaves
<1>5. QED
  BY <1>1, <1>2, <1>3, <1>4 DEF Next, Refill, Restart, vars

THEOREM DeletedConnectionsStayDeleted == Spec => DeletedStaysDeleted
<1>1. Inv /\ [Next]_vars => [\A c \in Ids : row[c].state = "deleted" => row'[c] = row[c]]_row
  BY StepKeepsDeleted
<1>2. QED
  BY <1>1, Invariant, PTL DEF Spec, DeletedStaysDeleted

=============================================================================
