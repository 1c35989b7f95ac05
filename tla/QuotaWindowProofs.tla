-------------------------- MODULE QuotaWindowProofs --------------------------
(***************************************************************************)
(* What QuotaWindow promises for every configuration of roles, window and   *)
(* number of requests.                                                      *)
(***************************************************************************)
EXTENDS QuotaWindow, FiniteSetTheorems, TLAPS

LEMMA Constants ==
    /\ Window \in Nat /\ Window > 0 /\ MinRetry \in Nat /\ MaxClock \in Nat
    /\ 0..MaxClock \subseteq Nat
BY QuotaAssumption

LEMMA QuotasAreIntegers ==
    ASSUME NEW roles \in RoleSets, NEW kind \in Kinds
    PROVE  Quotas(roles, kind) \subseteq Int
BY QuotaAssumption DEF Quotas

LEMMA AtTyped ==
    ASSUME NEW pc \in {"idle", "stamped"}, NEW k \in Keys, NEW s \in RoleSets, NEW now \in Nat
    PROVE  At(pc, k, s, now) \in RequestState
BY DEF At, RequestState

LEMMA IdleTyped ==
    /\ Idle \in RequestState
    /\ Idle.pc = "idle" /\ Idle.after = 0
<1>1. (CHOOSE k \in Keys : TRUE) \in Keys /\ (CHOOSE s \in RoleSets : TRUE) \in RoleSets
  <2>1. PICK user \in Users, kind \in Kinds : TRUE
    BY QuotaAssumption
  <2>2. <<kind, user>> \in Keys
    BY <2>1 DEF Keys
  <2>3. \E k \in Keys : TRUE
    BY <2>2
  <2>4. \E s \in RoleSets : TRUE
    BY QuotaAssumption
  <2>5. QED
    BY <2>3, <2>4
<1>2. Idle \in RequestState
  BY <1>1, AtTyped DEF Idle
<1>3. QED
  BY <1>2 DEF Idle, At

\* The hits of a bucket are runs it admitted, and finite in number.
Finite == \A k \in Keys : IsFiniteSet(admitted[k]) /\ hits[k] \subseteq admitted[k]

\* Places in the list are handed out in order.
Numbered ==
    /\ \A k \in Keys : \A g \in admitted[k] : g.n < count
    /\ \A r \in Requests : req[r].after <= count

\* What a check no later than the newest one needs is still there.
Remembered ==
    \A k \in Keys : \A g \in admitted[k] : g.at > newest[k] - Window => g \in hits[k]

Base == TypeOK /\ Finite /\ Numbered /\ Remembered

QuotaInv == Base /\ AdmittedWithinQuota /\ RefusalIsFull /\ RetryIsEnough

\* What a request about to be checked brings along.
LEMMA Checked ==
    ASSUME Base, NEW r \in Requests
    PROVE  /\ req[r] \in RequestState
           /\ req[r].key \in Keys /\ req[r].key[1] \in Kinds
           /\ req[r].roles \in RoleSets /\ req[r].now \in Nat /\ req[r].after \in Nat
           /\ hits[req[r].key] \subseteq Hit /\ newest[req[r].key] \in Nat
           /\ Late(r) \in BOOLEAN
<1>1. req[r] \in RequestState
  BY DEF Base, TypeOK
<1>2. req[r].key \in Keys /\ req[r].roles \in RoleSets /\ req[r].now \in Nat /\ req[r].after \in Nat
  BY <1>1 DEF RequestState
<1>3. QED
  BY <1>1, <1>2 DEF Base, TypeOK, Keys, Late

\* What is left of a bucket: everything in the window, unless overtaken.
LEMMA KeptFacts ==
    ASSUME Base, NEW r \in Requests
    PROVE  LET k == req[r].key
               now == req[r].now
           IN  /\ Kept(k, now) \subseteq hits[k] /\ Kept(k, now) \subseteq Hit
               /\ IsFiniteSet(Kept(k, now)) /\ Cardinality(Kept(k, now)) \in Nat
               /\ Kept(k, now) \subseteq Counted(k, count, now - Window)
               /\ ~Late(r) => Kept(k, now) = Counted(k, count, now - Window)
               /\ IsFiniteSet(Counted(k, count, now - Window))
<1> DEFINE k == req[r].key
           now == req[r].now
<1>1. k \in Keys /\ now \in Nat /\ hits[k] \subseteq Hit /\ newest[k] \in Nat
  BY Checked
<1>2. admitted[k] \subseteq Hit /\ IsFiniteSet(admitted[k]) /\ hits[k] \subseteq admitted[k]
  BY <1>1 DEF Base, TypeOK, Finite
<1>3. Kept(k, now) \subseteq hits[k]
  BY DEF Kept
<1>4. IsFiniteSet(Kept(k, now)) /\ Cardinality(Kept(k, now)) \in Nat
  BY <1>2, <1>3, FS_Subset, FS_CardinalityType
<1>5. Kept(k, now) \subseteq Counted(k, count, now - Window)
  BY <1>1, <1>2 DEF Kept, Counted, Base, Numbered
<1>6. ASSUME ~Late(r) PROVE Counted(k, count, now - Window) \subseteq Kept(k, now)
  <2>1. now >= newest[k]
    BY <1>1, <1>6 DEF Late
  <2>2. ASSUME NEW g \in admitted[k], g.at > now - Window PROVE g \in hits[k]
    <3>1. g.at \in Nat
      BY <1>2 DEF Hit
    <3>2. g.at > newest[k] - Window
      BY <1>1, <2>1, <2>2, <3>1, Constants
    <3>3. QED
      BY <1>1, <3>2 DEF Base, Remembered
  <2>3. QED
    BY <2>2 DEF Counted, Kept
<1>7. IsFiniteSet(Counted(k, count, now - Window))
  BY <1>2, FS_Subset DEF Counted
<1>8. QED
  BY <1>1, <1>2, <1>3, <1>4, <1>5, <1>6, <1>7

\* One more run after the n-th changes nothing of what was counted up to it.
LEMMA CountedStays ==
    ASSUME Base, NEW k \in Keys, NEW n \in Nat, n <= count, NEW t,
           \/ admitted'[k] = admitted[k]
           \/ \E g : g.n = count /\ admitted'[k] = admitted[k] \cup {g}
    PROVE  {g \in admitted'[k] : g.n < n /\ g.at > t} = Counted(k, n, t)
<1>1. count \in Nat
  BY DEF Base, TypeOK
<1>2. CASE admitted'[k] = admitted[k]
  BY <1>2 DEF Counted
<1>3. ASSUME NEW g, g.n = count, admitted'[k] = admitted[k] \cup {g}
      PROVE  {h \in admitted'[k] : h.n < n /\ h.at > t} = Counted(k, n, t)
  <2>1. ~(g.n < n)
    BY <1>1, <1>3
  <2>2. QED
    BY <1>3, <2>1 DEF Counted
<1>4. QED
  BY <1>2, <1>3

\* The refusals on record speak of the past.
LEMMA RefusalsStay ==
    ASSUME QuotaInv, NEW r \in Requests,
           \A p \in Requests : p # r => req'[p] = req[p],
           req'[r].pc # "refused",
           \A j \in Keys : admitted'[j] = admitted[j]
                        \/ \E g : g.n = count /\ admitted'[j] = admitted[j] \cup {g}
    PROVE  RefusalIsFull' /\ RetryIsEnough'
<1>1. ASSUME NEW p \in Requests, req'[p].pc = "refused", NEW t
      PROVE  /\ req'[p] = req[p]
             /\ {g \in admitted'[req[p].key] : g.n < req[p].after /\ g.at > t}
                   = Counted(req[p].key, req[p].after, t)
  <2>1. req'[p] = req[p]
    BY <1>1
  <2>2. Base /\ req[p].key \in Keys /\ req[p].after \in Nat /\ req[p].after <= count
    BY Checked DEF QuotaInv, Base, Numbered
  <2>3. QED
    BY <2>1, <2>2, CountedStays
<1>2. RefusalIsFull'
  BY <1>1 DEF QuotaInv, RefusalIsFull, Counted
<1>3. RetryIsEnough'
  BY <1>1 DEF QuotaInv, RetryIsEnough, Counted
<1>4. QED
  BY <1>2, <1>3

-----------------------------------------------------------------------------
\* A run that finds room.
LEMMA AdmitKeeps ==
    ASSUME QuotaInv, NEW r \in Requests, NEW q \in Int, Admit(r, q)
    PROVE  QuotaInv'
<1> DEFINE k == req[r].key
           now == req[r].now
           hit == [at |-> now, n |-> count, quota |-> q, late |-> Late(r)]
<1>a. Base /\ TypeOK
  BY DEF QuotaInv, Base
<1>b. /\ k \in Keys /\ now \in Nat /\ newest[k] \in Nat /\ Late(r) \in BOOLEAN
      /\ count \in Nat
  BY <1>a, Checked DEF TypeOK
<1>c. hit \in Hit
  BY <1>b DEF Hit
<1>d. /\ hits' = [hits EXCEPT ![k] = Kept(k, now) \cup {hit}]
      /\ admitted' = [admitted EXCEPT ![k] = admitted[k] \cup {hit}]
      /\ count' = count + 1 /\ clock' = clock
      /\ newest' = [newest EXCEPT ![k] = IF Late(r) THEN newest[k] ELSE now]
      /\ req' = [req EXCEPT ![r] = Idle]
      /\ Cardinality(Kept(k, now)) < q
  BY DEF Admit, NewHit, Seen
<1>e. /\ admitted'[k] = admitted[k] \cup {hit}
      /\ hits'[k] = Kept(k, now) \cup {hit}
      /\ newest'[k] = IF Late(r) THEN newest[k] ELSE now
      /\ \A j \in Keys : j # k => /\ admitted'[j] = admitted[j] /\ hits'[j] = hits[j]
                                  /\ newest'[j] = newest[j]
  BY <1>a, <1>b, <1>d DEF TypeOK
<1>f. \A j \in Keys : admitted'[j] = admitted[j]
                   \/ \E g : g.n = count /\ admitted'[j] = admitted[j] \cup {g}
  BY <1>e
<1>g. \A p \in Requests : req'[p] = IF p = r THEN Idle ELSE req[p]
  BY <1>a, <1>d DEF TypeOK
<1>1. TypeOK'
  <2>1. hits' \in [Keys -> SUBSET Hit]
    BY <1>a, <1>b, <1>c, <1>d, KeptFacts DEF TypeOK
  <2>2. admitted' \in [Keys -> SUBSET Hit]
    BY <1>a, <1>b, <1>c, <1>d DEF TypeOK
  <2>3. newest' \in [Keys -> Nat] /\ count' \in Nat
    BY <1>a, <1>b, <1>d DEF TypeOK
  <2>4. req' \in [Requests -> RequestState]
    BY <1>a, <1>d, IdleTyped DEF TypeOK
  <2>5. QED
    BY <1>a, <1>d, <2>1, <2>2, <2>3, <2>4 DEF TypeOK
<1>2. Finite'
  <2>1. IsFiniteSet(admitted'[k])
    <3>1. IsFiniteSet(admitted[k])
      BY <1>a, <1>b DEF Base, Finite
    <3>2. IsFiniteSet(admitted[k] \cup {hit})
      BY <3>1, FS_AddElement
    <3>3. QED
      BY <1>e, <3>2
  <2>2. hits'[k] \subseteq admitted'[k]
    BY <1>a, <1>b, <1>e, KeptFacts DEF Base, Finite
  <2>3. QED
    BY <1>a, <1>e, <2>1, <2>2 DEF Base, Finite
<1>3. Numbered'
  <2>1. ASSUME NEW j \in Keys, NEW g \in admitted'[j] PROVE g.n < count'
    <3>1. g = hit \/ g \in admitted[j]
      BY <1>e, <2>1
    <3>2. CASE g = hit
      BY <1>b, <1>d, <3>2
    <3>3. CASE g \in admitted[j]
      <4>1. g.n \in Nat /\ g.n < count
        BY <1>a, <3>3 DEF TypeOK, Hit, Base, Numbered
      <4>2. QED
        BY <1>b, <1>d, <4>1
    <3>4. QED
      BY <3>1, <3>2, <3>3
  <2>2. ASSUME NEW p \in Requests PROVE req'[p].after <= count'
    <3>1. req[p].after \in Nat /\ req[p].after <= count
      BY <1>a, Checked DEF Base, Numbered
    <3>2. QED
      BY <1>b, <1>d, <1>g, <3>1, IdleTyped
  <2>3. QED
    BY <2>1, <2>2 DEF Numbered
<1>4. Remembered'
  <2>1. ASSUME NEW g \in admitted'[k], g.at > newest'[k] - Window PROVE g \in hits'[k]
    <3>1. CASE g = hit
      BY <1>e, <3>1
    <3>2. CASE g \in admitted[k]
      <4>1. g.at \in Nat
        BY <1>a, <1>b, <3>2 DEF TypeOK, Hit
      <4>2. newest'[k] >= newest[k] /\ newest'[k] >= now /\ newest'[k] \in Nat
        BY <1>b, <1>e DEF Late
      <4>3. g.at > newest[k] - Window /\ g.at > now - Window
        BY <1>b, <2>1, <4>1, <4>2, Constants
      <4>4. g \in hits[k]
        BY <1>a, <1>b, <3>2, <4>3 DEF Base, Remembered
      <4>5. QED
        BY <1>e, <4>3, <4>4 DEF Kept
    <3>3. QED
      BY <1>e, <2>1, <3>1, <3>2
  <2>2. QED
    BY <1>a, <1>e, <2>1 DEF Base, Remembered
<1>5. AdmittedWithinQuota'
  <2>1. ASSUME NEW j \in Keys, NEW h \in admitted'[j], ~h.late
        PROVE  Cardinality({g \in admitted'[j] : g.n < h.n + 1 /\ g.at > h.at - Window}) <= h.quota
    <3>1. CASE h \in admitted[j]
      <4>1. h.n \in Nat /\ h.n < count
        BY <1>a, <3>1 DEF TypeOK, Hit, Base, Numbered
      <4>2. h.n + 1 \in Nat /\ h.n + 1 <= count
        BY <1>b, <4>1
      <4>3. {g \in admitted'[j] : g.n < h.n + 1 /\ g.at > h.at - Window}
              = Counted(j, h.n + 1, h.at - Window)
        BY <1>a, <1>f, <4>2, CountedStays
      <4>4. QED
        BY <2>1, <3>1, <4>3 DEF QuotaInv, AdmittedWithinQuota
    <3>2. CASE j = k /\ h = hit
      <4>1. ~Late(r) /\ h.n = count /\ h.at = now /\ h.quota = q
        BY <2>1, <3>2
      <4>2. {g \in admitted'[j] : g.n < count + 1 /\ g.at > now - Window}
              \subseteq Kept(k, now) \cup {hit}
        <5>1. ASSUME NEW g \in admitted[k], g.at > now - Window PROVE g \in Kept(k, now)
          <6>1. g \in Counted(k, count, now - Window)
            BY <1>a, <1>b, <5>1 DEF Counted, Base, Numbered
          <6>2. QED
            BY <1>a, <4>1, <6>1, KeptFacts
        <5>2. QED
          BY <1>e, <3>2, <5>1
      <4>3. /\ IsFiniteSet(Kept(k, now) \cup {hit})
            /\ Cardinality(Kept(k, now) \cup {hit}) <= Cardinality(Kept(k, now)) + 1
            /\ Cardinality(Kept(k, now)) \in Nat
            /\ Cardinality(Kept(k, now) \cup {hit}) \in Nat
        <5>1. IsFiniteSet(Kept(k, now)) /\ Cardinality(Kept(k, now)) \in Nat
          BY <1>a, KeptFacts
        <5>2. IsFiniteSet(Kept(k, now) \cup {hit})
              /\ Cardinality(Kept(k, now) \cup {hit})
                   = IF hit \in Kept(k, now) THEN Cardinality(Kept(k, now))
                     ELSE Cardinality(Kept(k, now)) + 1
          BY <5>1, FS_AddElement
        <5>3. QED
          BY <5>1, <5>2
      <4>4. /\ Cardinality({g \in admitted'[j] : g.n < count + 1 /\ g.at > now - Window})
                 <= Cardinality(Kept(k, now) \cup {hit})
            /\ Cardinality({g \in admitted'[j] : g.n < count + 1 /\ g.at > now - Window}) \in Nat
        BY <4>2, <4>3, FS_Subset, FS_CardinalityType
      <4>5. QED
        BY <1>d, <4>1, <4>3, <4>4
    <3>3. QED
      BY <1>e, <2>1, <3>1, <3>2
  <2>2. QED
    BY <2>1 DEF AdmittedWithinQuota, Counted
<1>6. RefusalIsFull' /\ RetryIsEnough'
  BY <1>a, <1>f, <1>g, IdleTyped, RefusalsStay DEF QuotaInv
<1>7. QED
  BY <1>1, <1>2, <1>3, <1>4, <1>5, <1>6 DEF QuotaInv, Base

-----------------------------------------------------------------------------
\* A run that finds none.
LEMMA RefuseKeeps ==
    ASSUME QuotaInv, NEW r \in Requests, NEW q \in Int, Refuse(r, q)
    PROVE  QuotaInv'
<1> DEFINE k == req[r].key
           now == req[r].now
           kept == Kept(k, now)
<1>1. PICK first \in kept :
         /\ \A h \in kept : first.n <= h.n
         /\ req' = [req EXCEPT ![r] =
               [pc |-> "refused", key |-> k, roles |-> req[r].roles, now |-> now,
                quota |-> q, used |-> Cardinality(kept), retry |-> RetryAfter(first, now),
                after |-> count, late |-> Late(r)]]
  BY DEF Refuse
<1> DEFINE answer == [pc |-> "refused", key |-> k, roles |-> req[r].roles, now |-> now,
                      quota |-> q, used |-> Cardinality(kept),
                      retry |-> RetryAfter(first, now), after |-> count, late |-> Late(r)]
<1>a. Base /\ TypeOK
  BY DEF QuotaInv, Base
<1>b. /\ k \in Keys /\ now \in Nat /\ newest[k] \in Nat /\ Late(r) \in BOOLEAN
      /\ count \in Nat /\ req[r].roles \in RoleSets
  BY <1>a, Checked DEF TypeOK
<1>c. /\ kept \subseteq Hit /\ IsFiniteSet(kept) /\ Cardinality(kept) \in Nat
      /\ kept \subseteq hits[k]
      /\ kept \subseteq Counted(k, count, now - Window)
      /\ ~Late(r) => kept = Counted(k, count, now - Window)
      /\ IsFiniteSet(Counted(k, count, now - Window))
  BY <1>a, KeptFacts
<1>d. first.at \in Nat /\ first.at > now - Window
  BY <1>c DEF Hit, Kept
<1>e. RetryAfter(first, now) \in Int /\ RetryAfter(first, now) >= first.at + Window - now
  BY <1>b, <1>d, Constants DEF RetryAfter
<1>f. /\ hits' = [hits EXCEPT ![k] = kept]
      /\ newest' = [newest EXCEPT ![k] = IF Late(r) THEN newest[k] ELSE now]
      /\ UNCHANGED <<clock, admitted, count>>
      /\ Cardinality(kept) >= q
  BY DEF Refuse, Seen
<1>g. /\ hits'[k] = kept
      /\ newest'[k] = IF Late(r) THEN newest[k] ELSE now
      /\ \A j \in Keys : j # k => hits'[j] = hits[j] /\ newest'[j] = newest[j]
  BY <1>a, <1>b, <1>f DEF TypeOK
<1>h. \A p \in Requests : req'[p] = IF p = r THEN answer ELSE req[p]
  BY <1>a, <1>1 DEF TypeOK
<1>2. TypeOK'
  <2>1. hits' \in [Keys -> SUBSET Hit]
    BY <1>a, <1>b, <1>c, <1>f DEF TypeOK
  <2>2. newest' \in [Keys -> Nat]
    BY <1>a, <1>b, <1>f DEF TypeOK
  <2>3. answer \in RequestState
    <3>1. Cardinality(kept) \in Nat /\ RetryAfter(first, now) \in Int
      BY <1>c, <1>e
    <3>2. QED
      BY <1>b, <3>1 DEF RequestState
  <2>4. req' \in [Requests -> RequestState]
    BY <1>a, <1>1, <2>3 DEF TypeOK
  <2>5. QED
    BY <1>a, <1>f, <2>1, <2>2, <2>4 DEF TypeOK
<1>3. Finite' /\ Numbered'
  <2>1. Finite'
    BY <1>a, <1>b, <1>c, <1>f, <1>g DEF Base, Finite
  <2>2. Numbered'
    BY <1>a, <1>b, <1>f, <1>h DEF Base, Numbered
  <2>3. QED
    BY <2>1, <2>2
<1>4. Remembered'
  <2>1. ASSUME NEW g \in admitted'[k], g.at > newest'[k] - Window PROVE g \in hits'[k]
    <3>1. g \in admitted[k] /\ g.at \in Nat
      BY <1>a, <1>b, <1>f, <2>1 DEF TypeOK, Hit
    <3>2. newest'[k] >= newest[k] /\ newest'[k] >= now /\ newest'[k] \in Nat
      BY <1>b, <1>g DEF Late
    <3>3. g.at > newest[k] - Window /\ g.at > now - Window
      BY <1>b, <2>1, <3>1, <3>2, Constants
    <3>4. g \in hits[k]
      BY <1>a, <1>b, <3>1, <3>3 DEF Base, Remembered
    <3>5. QED
      BY <1>g, <3>3, <3>4 DEF Kept
  <2>2. QED
    BY <1>a, <1>f, <1>g, <2>1 DEF Base, Remembered
<1>5. AdmittedWithinQuota'
  BY <1>f DEF QuotaInv, AdmittedWithinQuota, Counted
<1>6. Cardinality(Counted(k, count, now - Window)) >= q
  <2>1. Cardinality(kept) <= Cardinality(Counted(k, count, now - Window))
    BY <1>c, FS_Subset
  <2>2. Cardinality(Counted(k, count, now - Window)) \in Nat
    BY <1>c, FS_CardinalityType
  <2>3. QED
    BY <1>c, <1>f, <2>1, <2>2
<1>7. ASSUME ~Late(r), Cardinality(kept) = q
      PROVE  Cardinality(Counted(k, count, now + RetryAfter(first, now) - Window)) < q
  <2>1. Counted(k, count, now + RetryAfter(first, now) - Window) \subseteq kept \ {first}
    <3>1. ASSUME NEW g \in admitted[k], g.n < count,
                 g.at > now + RetryAfter(first, now) - Window
          PROVE  g \in kept /\ g # first
      <4>1. g.at \in Nat
        BY <1>a, <1>b DEF TypeOK, Hit
      <4>2. g.at > now - Window /\ g.at > first.at
        BY <1>b, <1>d, <1>e, <3>1, <4>1, Constants
      <4>3. g \in Counted(k, count, now - Window)
        BY <3>1, <4>2 DEF Counted
      <4>4. QED
        BY <1>7, <1>c, <1>d, <4>2, <4>3
    <3>2. QED
      BY <3>1 DEF Counted
  <2>2. IsFiniteSet(kept \ {first}) /\ Cardinality(kept \ {first}) = Cardinality(kept) - 1
    BY <1>c, FS_RemoveElement
  <2>3. /\ Cardinality(Counted(k, count, now + RetryAfter(first, now) - Window))
             <= Cardinality(kept \ {first})
        /\ Cardinality(Counted(k, count, now + RetryAfter(first, now) - Window)) \in Nat
    BY <2>1, <2>2, FS_Subset, FS_CardinalityType
  <2>4. QED
    BY <1>7, <1>c, <2>2, <2>3
<1>8. \A j, n, t : Counted(j, n, t)' = {g \in admitted[j] : g.n < n /\ g.at > t}
  BY <1>f DEF Counted
<1>9. RefusalIsFull'
  <2>1. ASSUME NEW p \in Requests, req'[p].pc = "refused"
        PROVE  Cardinality({g \in admitted[req'[p].key] : g.n < req'[p].after
                              /\ g.at > req'[p].now - Window}) >= req'[p].quota
    <3>1. CASE p = r
      <4>1. /\ req'[p].key = k /\ req'[p].after = count /\ req'[p].now = now
            /\ req'[p].quota = q
        BY <1>h, <3>1
      <4>2. QED
        BY <1>6, <4>1 DEF Counted
    <3>2. CASE p # r
      BY <1>h, <2>1, <3>2 DEF QuotaInv, RefusalIsFull, Counted
    <3>3. QED
      BY <3>1, <3>2
  <2>2. QED
    BY <1>f, <2>1 DEF RefusalIsFull, Counted
<1>10. RetryIsEnough'
  <2>1. ASSUME NEW p \in Requests, req'[p].pc = "refused", ~req'[p].late,
               req'[p].used = req'[p].quota
        PROVE  Cardinality({g \in admitted[req'[p].key] : g.n < req'[p].after
                              /\ g.at > req'[p].now + req'[p].retry - Window}) < req'[p].quota
    <3>1. CASE p = r
      <4>1. /\ req'[p].key = k /\ req'[p].after = count /\ req'[p].now = now
            /\ req'[p].quota = q /\ req'[p].retry = RetryAfter(first, now)
            /\ req'[p].used = Cardinality(kept) /\ req'[p].late = Late(r)
        BY <1>h, <3>1
      <4>2. QED
        BY <1>7, <2>1, <4>1 DEF Counted
    <3>2. CASE p # r
      BY <1>h, <2>1, <3>2 DEF QuotaInv, RetryIsEnough, Counted
    <3>3. QED
      BY <3>1, <3>2
  <2>2. QED
    BY <1>f, <2>1 DEF RetryIsEnough, Counted
<1>11. QED
  BY <1>2, <1>3, <1>4, <1>5, <1>9, <1>10 DEF QuotaInv, Base

\* A step that only moves a request to a state that is no refusal, or time.
LEMMA NoCheckKeeps ==
    ASSUME QuotaInv, UNCHANGED <<hits, admitted, newest, count>>, clock' \in 0..MaxClock,
           \/ UNCHANGED req
           \/ \E r \in Requests, next \in RequestState :
                 next.pc # "refused" /\ next.after = 0 /\ req' = [req EXCEPT ![r] = next]
    PROVE  QuotaInv'
<1>a. Base /\ TypeOK /\ count \in Nat
  BY DEF QuotaInv, Base, TypeOK
<1>1. CASE UNCHANGED req
  BY <1>1 DEF QuotaInv, Base, TypeOK, Finite, Numbered, Remembered, AdmittedWithinQuota,
              RefusalIsFull, RetryIsEnough, Counted
<1>2. ASSUME NEW r \in Requests, NEW next \in RequestState,
             next.pc # "refused", next.after = 0, req' = [req EXCEPT ![r] = next]
      PROVE  QuotaInv'
  <2>1. \A p \in Requests : req'[p] = IF p = r THEN next ELSE req[p]
    BY <1>a, <1>2 DEF TypeOK
  <2>2. TypeOK'
    BY <1>a, <1>2 DEF TypeOK
  <2>3. Finite' /\ Remembered' /\ AdmittedWithinQuota'
    BY DEF QuotaInv, Base, Finite, Remembered, AdmittedWithinQuota, Counted
  <2>4. Numbered'
    BY <1>a, <1>2, <2>1 DEF Base, Numbered
  <2>5. RefusalIsFull' /\ RetryIsEnough'
    BY <1>2, <2>1, RefusalsStay
  <2>6. QED
    BY <2>2, <2>3, <2>4, <2>5 DEF QuotaInv, Base
<1>3. QED
  BY <1>1, <1>2

LEMMA QuotaStep == QuotaInv /\ [Next]_vars => QuotaInv'
<1> SUFFICES ASSUME QuotaInv, [Next]_vars PROVE QuotaInv'
  OBVIOUS
<1>a. Base /\ TypeOK /\ clock \in 0..MaxClock /\ clock \in Nat
  BY Constants DEF QuotaInv, Base, TypeOK
<1>1. CASE UNCHANGED vars
  BY <1>a, <1>1, NoCheckKeeps DEF vars
<1>2. CASE Tick
  <2>1. clock' \in 0..MaxClock
    BY <1>a, <1>2, Constants DEF Tick
  <2>2. QED
    BY <1>2, <2>1, NoCheckKeeps DEF Tick
<1>3. ASSUME NEW r \in Requests, Stamp(r) PROVE QuotaInv'
  <2>1. PICK k \in Keys, s \in RoleSets : req' = [req EXCEPT ![r] = At("stamped", k, s, clock)]
    BY <1>3 DEF Stamp
  <2>2. /\ At("stamped", k, s, clock) \in RequestState
        /\ At("stamped", k, s, clock).pc # "refused" /\ At("stamped", k, s, clock).after = 0
    BY <1>a, AtTyped DEF At
  <2>3. QED
    BY <1>3, <1>a, <2>1, <2>2, NoCheckKeeps DEF Stamp
<1>4. ASSUME NEW r \in Requests, Check(r) PROVE QuotaInv'
  <2>1. PICK q \in Quotas(req[r].roles, req[r].key[1]) : Pass(r, q) \/ Admit(r, q) \/ Refuse(r, q)
    BY <1>4 DEF Check
  <2>2. q \in Int
    BY <1>a, <2>1, Checked, QuotasAreIntegers
  <2>3. CASE Pass(r, q)
    BY <1>a, <2>3, IdleTyped, NoCheckKeeps DEF Pass
  <2>4. QED
    BY <2>1, <2>2, <2>3, AdmitKeeps, RefuseKeeps
<1>5. QED
  BY <1>1, <1>2, <1>3, <1>4 DEF Next

LEMMA QuotaInit == Init => QuotaInv
<1> SUFFICES ASSUME Init PROVE QuotaInv
  OBVIOUS
<1>1. TypeOK
  BY IdleTyped, Constants DEF Init, TypeOK
<1>2. Finite /\ Numbered /\ Remembered
  BY IdleTyped, FS_EmptySet DEF Init, Finite, Numbered, Remembered
<1>3. AdmittedWithinQuota /\ RefusalIsFull /\ RetryIsEnough
  BY IdleTyped DEF Init, AdmittedWithinQuota, RefusalIsFull, RetryIsEnough
<1>4. QED
  BY <1>1, <1>2, <1>3 DEF QuotaInv, Base

\* The variables of the quota service stay in their domains.
THEOREM QuotaTypeCorrect == Spec => []TypeOK
<1>1. QuotaInv => TypeOK
  BY DEF QuotaInv, Base
<1>2. QED
  BY <1>1, QuotaInit, QuotaStep, PTL DEF Spec

\* The sliding window is right although it forgets: no run that was not
\* overtaken is admitted beyond the quota of its caller.
THEOREM QuotaIsKept == Spec => []AdmittedWithinQuota
<1>1. QuotaInv => AdmittedWithinQuota
  BY DEF QuotaInv
<1>2. QED
  BY <1>1, QuotaInit, QuotaStep, PTL DEF Spec

\* Nobody is refused a run while the quota has room.
THEOREM QuotaIsGranted == Spec => []RefusalIsFull
<1>1. QuotaInv => RefusalIsFull
  BY DEF QuotaInv
<1>2. QED
  BY <1>1, QuotaInit, QuotaStep, PTL DEF Spec

\* The wait a refused caller is told is long enough.
THEOREM RetryAfterSuffices == Spec => []RetryIsEnough
<1>1. QuotaInv => RetryIsEnough
  BY DEF QuotaInv
<1>2. QED
  BY <1>1, QuotaInit, QuotaStep, PTL DEF Spec

-----------------------------------------------------------------------------
\* No request is overtaken on its way to the bucket.
InOrder == \A r \in Requests : req[r].pc = "stamped" => ~Late(r)

NoneLate == \A k \in Keys : \A h \in admitted[k] : ~h.late

LEMMA NoneLateStep == QuotaInv /\ NoneLate /\ InOrder /\ [Next]_vars => NoneLate'
<1> SUFFICES ASSUME QuotaInv, NoneLate, InOrder, [Next]_vars PROVE NoneLate'
  OBVIOUS
<1>1. ASSUME admitted' = admitted PROVE NoneLate'
  BY <1>1 DEF NoneLate
<1>2. ASSUME NEW r \in Requests, Check(r) PROVE NoneLate'
  <2>1. PICK q \in Quotas(req[r].roles, req[r].key[1]) : Pass(r, q) \/ Admit(r, q) \/ Refuse(r, q)
    BY <1>2 DEF Check
  <2>2. CASE Admit(r, q)
    <3>1. NewHit(r, q).late = Late(r) /\ ~Late(r)
      BY <1>2 DEF NewHit, Check, InOrder
    <3>2. admitted' = [admitted EXCEPT ![req[r].key] = @ \cup {NewHit(r, q)}]
      BY <2>2 DEF Admit
    <3> QED BY <3>1, <3>2 DEF NoneLate, QuotaInv, Base, TypeOK
  <2> QED BY <1>1, <2>1, <2>2 DEF Pass, Refuse
<1> QED BY <1>1, <1>2 DEF Next, Tick, Stamp, vars

\* As long as the requests of one user and kind are checked in the order of
\* their stamps, no run at all is admitted beyond its caller's quota: being
\* overtaken is all that the refuted NeverMissesOne takes.
THEOREM NoneMissedInOrder == Spec /\ []InOrder => []NeverMissesOne
<1>1. Init => NoneLate
  BY DEF Init, NoneLate
<1>2. QuotaInv /\ NoneLate => NeverMissesOne
  BY DEF QuotaInv, NoneLate, AdmittedWithinQuota, NeverMissesOne
<1> QED BY <1>1, <1>2, QuotaInit, QuotaStep, NoneLateStep, PTL DEF Spec

=============================================================================
