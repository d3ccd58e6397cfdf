----------------------- MODULE MultisigSessionsProofs -----------------------
(* Proofs of the safety properties of MultisigSessions, for every value of *)
(* its constants: any validators, snapshots, thresholds, timeouts and      *)
(* grace periods, and any number of keys and signing sessions.             *)
EXTENDS MultisigSessions, TLAPS

USE SMTT(20), ZenonT(10)

-----------------------------------------------------------------------------
(* Weights and thresholds.                                                 *)

(* The weight that passes is the least one that meets the threshold: the   *)
(* rounding of CalculateMinPassingWeight is exact.                         *)
LEMMA PassingMeets ==
    ASSUME NEW w \in Nat, NEW b \in Nat, NEW t, IsThreshold(t)
    PROVE  w >= CalculateMinPassingWeight(b, t) <=> w * t.den >= b * t.num
<1> DEFINE n == t.num
           d == t.den
           x == b * n
           q == x \div d
<1>1. n \in Nat \ {0} /\ d \in Nat \ {0}
  BY DEF IsThreshold
<1>2. x \in Nat
  BY <1>1
<1>3. ASSUME NEW u \in Nat, NEW y \in Nat \ {0}
      PROVE  (u \div y) \in Nat /\ (u \div y) * y <= u /\ u < ((u \div y) + 1) * y
  OBVIOUS
<1>4. q \in Nat /\ q * d <= x /\ x < (q + 1) * d
  BY <1>1, <1>2, <1>3, Zenon
<1>5. CalculateMinPassingWeight(b, t) = IF q * d >= x THEN q ELSE q + 1
  BY DEF CalculateMinPassingWeight
<1>6. ASSUME NEW m \in Nat, NEW l \in Nat, NEW y \in Nat \ {0}
      PROVE  m >= l <=> m * y >= l * y
  OBVIOUS
<1> HIDE DEF n, d, x, q
<1>7. CASE q * d >= x
  BY <1>1, <1>2, <1>4, <1>5, <1>6, <1>7 DEF x, n, d
<1>8. CASE q * d < x
  <2>1. ASSUME w >= q + 1 PROVE w * d >= x
    <3>1. w * d >= (q + 1) * d
      BY <1>1, <1>4, <1>6, <2>1
    <3> QED
      BY <1>1, <1>2, <1>4, <3>1
  <2>2. ASSUME w <= q PROVE w * d < x
    <3>1. w * d <= q * d
      BY <1>1, <1>4, <1>6, <2>2
    <3> QED
      BY <1>1, <1>2, <1>4, <1>8, <3>1
  <2> QED
    BY <1>1, <1>2, <1>4, <1>5, <1>8, <2>1, <2>2 DEF x, n, d
<1> QED
  BY <1>1, <1>2, <1>4, <1>7, <1>8

(* What meets a threshold meets every lower one.                           *)
LEMMA LowerThreshold ==
    ASSUME NEW w \in Nat, NEW b \in Nat, NEW t, IsThreshold(t), NEW u, IsThreshold(u),
           GTE(t, u), w * t.den >= b * t.num
    PROVE  w * u.den >= b * u.num
<1> DEFINE tn == t.num
           td == t.den
           un == u.num
           ud == u.den
<1>1. /\ tn \in Nat \ {0} /\ td \in Nat \ {0}
      /\ un \in Nat \ {0} /\ ud \in Nat \ {0}
  BY DEF IsThreshold
<1>2. tn * ud >= td * un /\ w * td >= b * tn
  BY DEF GTE
<1> HIDE DEF tn, td, un, ud
<1>3. ASSUME NEW x \in Nat, NEW y \in Nat, NEW z \in Nat, x >= y
      PROVE  z * x >= z * y /\ x * z >= y * z
  BY <1>3
<1>4. (w * td) * ud >= (b * tn) * ud
  BY <1>1, <1>2, <1>3
<1>5. b * (tn * ud) >= b * (td * un)
  BY <1>1, <1>2, <1>3
<1>6. (b * tn) * ud = b * (tn * ud) /\ b * (td * un) = td * (b * un) /\ (w * td) * ud = td * (w * ud)
  BY <1>1
<1>7. w * ud \in Nat /\ b * un \in Nat
  BY <1>1
<1>8. ASSUME NEW x \in Nat, NEW y \in Nat, td * x >= td * y PROVE x >= y
  <2>1. SUFFICES ASSUME y >= x + 1 PROVE FALSE
    OBVIOUS
  <2>2. td * y >= td * (x + 1)
    BY <1>1, <1>3, <2>1
  <2>3. td * (x + 1) = td * x + td
    BY <1>1
  <2> QED
    BY <1>1, <1>8, <2>2, <2>3
<1>9. td * (w * ud) >= td * (b * un)
  BY <1>1, <1>4, <1>5, <1>6, <1>7
<1>10. w * ud >= b * un
  BY <1>7, <1>8, <1>9
<1> QED
  BY <1>10 DEF ud, un

(* No signature at all meets no threshold: snapshots have bonded weight.   *)
LEMMA NobodyMeets ==
    ASSUME NEW s \in Snapshots, NEW t, IsThreshold(t)
    PROVE  ~ Meets(s, {}, t)
<1> DEFINE W == s.weight
<1>1. IsSnapshot(s, Validators)
  BY SessionAssumption
<1>2. PICK v \in Validators : W[{v}] > 0
  BY <1>1, Zenon DEF IsSnapshot
<1>3. W \in [SUBSET Validators -> Nat] /\ s.bonded \in Nat /\ W[Validators] <= s.bonded
  BY <1>1 DEF IsSnapshot
<1>4. ASSUME NEW A \in SUBSET Validators, NEW B \in SUBSET Validators, A \cap B = {}
      PROVE  W[A \cup B] = W[A] + W[B] /\ W[A] \in Nat /\ W[B] \in Nat
  BY <1>1, <1>4, Zenon DEF IsSnapshot
<1>5. W[{}] = 0
  <2>1. W[{}] = W[{}] + W[{}] /\ W[{}] \in Nat
    <3>1. {} \cap {} = {} /\ {} \cup {} = {} /\ {} \in SUBSET Validators
      OBVIOUS
    <3> QED
      BY <1>4, <3>1, Zenon
  <2>2. ASSUME NEW x \in Nat, x = x + x PROVE x = 0
    BY <2>2
  <2> QED
    BY <2>1, <2>2, Zenon
<1>6. s.bonded > 0
  <2> DEFINE R == Validators \ {v}
  <2>1. {v} \in SUBSET Validators /\ R \in SUBSET Validators /\ {v} \cap R = {} /\ {v} \cup R = Validators
    OBVIOUS
  <2>2. W[{v} \cup R] = W[{v}] + W[R] /\ W[{v}] \in Nat /\ W[R] \in Nat
    BY <1>4, <2>1, Zenon
  <2>3. W[Validators] = W[{v}] + W[R]
    BY <2>1, <2>2, Zenon
  <2> HIDE DEF R
  <2> QED
    BY <1>2, <1>3, <2>2, <2>3
<1>7. t.num \in Nat \ {0} /\ t.den \in Nat \ {0}
  BY DEF IsThreshold
<1>8. ASSUME NEW x \in Nat, x > 0, NEW y \in Nat \ {0} PROVE x * y > 0
  BY <1>8
<1>9. s.bonded * t.num > 0 /\ 0 * t.den = 0
  BY <1>3, <1>6, <1>7, <1>8
<1>10. W[{}] * t.den = 0
  BY <1>5, <1>9
<1> QED
  BY <1>3, <1>7, <1>9, <1>10 DEF Meets

-----------------------------------------------------------------------------
(* The expiry index, for keygen and signing sessions alike.                *)

\* the state and the times of a stored session
IsSession(s) ==
    /\ s.state \in {"Pending", "Completed"}
    /\ s.expiresAt \in Nat /\ s.expiresAt <= MaxHeight
    /\ s.completedAt \in Nat
    /\ s.grace \in Nat

Stored(ids, sessions, none) == {i \in ids : sessions[i] # none}
EntryOf(sessions, i) == <<SessionExpiry(sessions[i]), i>>

(***************************************************************************)
(* At height h the index has one entry for each stored session, and the    *)
(* sessions whose time is over are those whose handling was lost.          *)
(***************************************************************************)
Scheduled(index, ids, sessions, none, lost, h) ==
    /\ index = {EntryOf(sessions, i) : i \in Stored(ids, sessions, none)}
    /\ \A i \in Stored(ids, sessions, none) :
          /\ IsSession(sessions[i])
          /\ i \in lost <=> SessionExpiry(sessions[i]) <= h
    /\ lost \subseteq Stored(ids, sessions, none)

(* The height a session is indexed under is between the block after its    *)
(* completion and its expiry.                                              *)
LEMMA ExpiryBounds ==
    ASSUME NEW s, IsSession(s)
    PROVE  /\ SessionExpiry(s) \in Nat
           /\ SessionExpiry(s) <= s.expiresAt
           /\ s.state = "Pending" => SessionExpiry(s) = s.expiresAt
           /\ s.state = "Completed" => SessionExpiry(s) <= s.completedAt + s.grace + 1
           /\ \/ SessionExpiry(s) = s.expiresAt
              \/ /\ s.state = "Completed"
                 /\ SessionExpiry(s) = s.completedAt + s.grace + 1
BY DEF IsSession, SessionExpiry

(* A session whose time is not over accepts submissions.                   *)
LEMMA InTimeIsOpen ==
    ASSUME NEW s, IsSession(s), NEW h \in Nat
    PROVE  IsOpen(s, h) <=> h < SessionExpiry(s)
BY DEF IsSession, SessionExpiry, IsOpen, isExpired, isWithinGracePeriod

(* Storing a new session, or the update of one that is open, keeps the     *)
(* index in step.                                                          *)
LEMMA StoreScheduled ==
    ASSUME NEW index, NEW ids, NEW sessions, NEW none, NEW lost, NEW h \in Nat,
           DOMAIN sessions = ids,
           Scheduled(index, ids, sessions, none, lost, h),
           NEW i \in ids, NEW s, s # none, IsSession(s), SessionExpiry(s) > h,
           sessions[i] # none =>
               /\ i \notin lost
               /\ s.expiresAt = sessions[i].expiresAt
               /\ sessions[i].state = "Completed" => SessionExpiry(s) = SessionExpiry(sessions[i])
    PROVE  Scheduled(Reindexed(index, s, i), ids, [sessions EXCEPT ![i] = s], none, lost, h)
<1> DEFINE new == [sessions EXCEPT ![i] = s]
<1>1. /\ new[i] = s
      /\ \A j \in ids : j # i => new[j] = sessions[j]
  OBVIOUS
<1>2. /\ Stored(ids, new, none) = Stored(ids, sessions, none) \cup {i}
      /\ \A j \in Stored(ids, sessions, none) : j \in ids
  BY <1>1 DEF Stored
<1>3. i \notin lost
  BY DEF Scheduled, Stored
<1>4. ASSUME sessions[i] # none
      PROVE  EntryOf(sessions, i) \in {<<s.expiresAt, i>>, EntryOf(new, i)}
  <2>1. IsSession(sessions[i])
    BY <1>4 DEF Scheduled, Stored
  <2> QED
    BY <1>1, <1>4, <2>1, ExpiryBounds DEF IsSession, EntryOf
<1> HIDE DEF new
<1>5. Reindexed(index, s, i) = {EntryOf(new, j) : j \in Stored(ids, new, none)}
  <2>1. \A j \in Stored(ids, sessions, none) : j # i =>
            /\ EntryOf(new, j) = EntryOf(sessions, j)
            /\ EntryOf(sessions, j) # <<s.expiresAt, i>>
    BY <1>1, <1>2 DEF EntryOf
  <2>2. EntryOf(new, i) = <<SessionExpiry(s), i>>
    BY <1>1 DEF EntryOf
  <2>3. i \in Stored(ids, sessions, none) => sessions[i] # none
    BY DEF Stored
  <2>4. index = {EntryOf(sessions, j) : j \in Stored(ids, sessions, none)}
    BY DEF Scheduled
  <2>5. ASSUME NEW e \in Reindexed(index, s, i)
        PROVE  e \in {EntryOf(new, j) : j \in Stored(ids, new, none)}
    <3>1. CASE e = <<SessionExpiry(s), i>>
      BY <1>2, <2>2, <3>1
    <3>2. CASE e \in index \ {<<s.expiresAt, i>>}
      <4>1. PICK j \in Stored(ids, sessions, none) : e = EntryOf(sessions, j)
        BY <2>4, <3>2
      <4> QED
        BY <1>2, <1>4, <2>1, <2>3, <3>2, <4>1
    <3> QED
      BY <2>5, <3>1, <3>2 DEF Reindexed
  <2>6. ASSUME NEW j \in Stored(ids, new, none)
        PROVE  EntryOf(new, j) \in Reindexed(index, s, i)
    BY <1>2, <2>1, <2>2, <2>4 DEF Reindexed
  <2> QED
    BY <2>5, <2>6
<1>6. ASSUME NEW j \in Stored(ids, new, none)
      PROVE  IsSession(new[j]) /\ (j \in lost <=> SessionExpiry(new[j]) <= h)
  <2>1. SessionExpiry(s) \in Nat
    BY ExpiryBounds
  <2>2. CASE j = i
    BY <1>1, <1>3, <2>1, <2>2
  <2>3. CASE j # i
    BY <1>1, <1>2, <1>6, <2>3 DEF Scheduled
  <2> QED
    BY <2>2, <2>3
<1>7. lost \subseteq Stored(ids, new, none)
  BY <1>2 DEF Scheduled
<1> QED
  BY <1>5, <1>6, <1>7, Zenon DEF Scheduled, new

\* sessions after an end blocker that handled some of the due ones
Remaining(ids, sessions, none, handled) ==
    [i \in ids |-> IF i \in handled THEN none ELSE sessions[i]]

(* The sessions the end blocker looks up are the stored ones that end with *)
(* this block; none of them was lost before, and the clock moves on.       *)
LEMMA DueSessions ==
    ASSUME NEW index, NEW ids, NEW sessions, NEW none, NEW lost, NEW h \in Nat,
           Scheduled(index, ids, sessions, none, lost, h)
    PROVE  /\ DueAtEndOf(index, h) =
                  {i \in Stored(ids, sessions, none) : SessionExpiry(sessions[i]) = h + 1}
           /\ DueAtEndOf(index, h) \cap lost = {}
           /\ DueAtEndOf(index, h) # {} => h < MaxHeight
<1> DEFINE due == {i \in Stored(ids, sessions, none) : SessionExpiry(sessions[i]) = h + 1}
<1>1. ASSUME NEW i \in DueAtEndOf(index, h) PROVE i \in due
  <2>1. PICK e \in index : e[1] = h + 1 /\ i = e[2]
    BY <1>1 DEF DueAtEndOf
  <2>2. PICK j \in Stored(ids, sessions, none) : e = EntryOf(sessions, j)
    BY DEF Scheduled
  <2> QED
    BY <2>1, <2>2 DEF EntryOf
<1>2. ASSUME NEW i \in due PROVE i \in DueAtEndOf(index, h)
  <2>1. EntryOf(sessions, i) \in index
    BY <1>2 DEF Scheduled
  <2>2. EntryOf(sessions, i)[1] = h + 1 /\ EntryOf(sessions, i)[2] = i
    BY <1>2 DEF EntryOf
  <2> QED
    BY <2>1, <2>2 DEF DueAtEndOf
<1>3. ASSUME NEW i \in due PROVE i \notin lost /\ h < MaxHeight
  <2>1. IsSession(sessions[i]) /\ (i \in lost <=> SessionExpiry(sessions[i]) <= h)
    BY <1>3 DEF Scheduled
  <2>2. SessionExpiry(sessions[i]) <= MaxHeight
    BY <2>1, ExpiryBounds, SessionAssumption DEF IsSession
  <2> QED
    BY <1>3, <2>1, <2>2, SessionAssumption
<1> QED
  BY <1>1, <1>2, <1>3

(* An end blocker that handles some of the due sessions and loses the      *)
(* others keeps the index in step with the sessions, and the lost sessions *)
(* those whose time is over.                                               *)
LEMMA BlockScheduled ==
    ASSUME NEW index, NEW ids, NEW sessions, NEW none, NEW lost, NEW h \in Nat,
           Scheduled(index, ids, sessions, none, lost, h),
           NEW handled \in SUBSET DueAtEndOf(index, h),
           NEW next, next = IF h < MaxHeight THEN h + 1 ELSE h
    PROVE  Scheduled(index \ {EntryOf(sessions, i) : i \in handled}, ids,
                     Remaining(ids, sessions, none, handled), none,
                     lost \cup (DueAtEndOf(index, h) \ handled), next)
<1> DEFINE new == Remaining(ids, sessions, none, handled)
           due == DueAtEndOf(index, h)
           stored == Stored(ids, sessions, none)
<1>1. /\ due = {i \in stored : SessionExpiry(sessions[i]) = h + 1}
      /\ due \cap lost = {}
      /\ due # {} => h < MaxHeight
  BY DueSessions
<1>2. Stored(ids, new, none) = stored \ handled
  BY DEF Stored, Remaining
<1>3. \A i \in stored \ handled : new[i] = sessions[i]
  BY DEF Stored, Remaining
<1>4. index \ {EntryOf(sessions, i) : i \in handled} = {EntryOf(new, i) : i \in stored \ handled}
  <2>1. \A i, j : EntryOf(sessions, i) = EntryOf(sessions, j) => i = j
    BY DEF EntryOf
  <2>2. \A i \in stored \ handled : EntryOf(new, i) = EntryOf(sessions, i)
    BY <1>3 DEF EntryOf
  <2>3. index = {EntryOf(sessions, i) : i \in stored}
    BY DEF Scheduled
  <2> HIDE DEF new, due, stored
  <2>4. ASSUME NEW e \in index \ {EntryOf(sessions, i) : i \in handled}
        PROVE  e \in {EntryOf(new, i) : i \in stored \ handled}
    <3>1. PICK i \in stored : e = EntryOf(sessions, i)
      BY <2>3
    <3>2. i \notin handled
      BY <3>1, <2>4
    <3> QED
      BY <2>2, <3>1, <3>2
  <2>5. ASSUME NEW i \in stored \ handled
        PROVE  EntryOf(new, i) \in index \ {EntryOf(sessions, j) : j \in handled}
    BY <2>1, <2>2, <2>3, Zenon
  <2> QED
    BY <2>4, <2>5
<1>5. ASSUME NEW i \in stored \ handled
      PROVE  /\ IsSession(new[i])
             /\ i \in lost \cup (due \ handled) <=> SessionExpiry(new[i]) <= next
  <2>1. IsSession(sessions[i]) /\ (i \in lost <=> SessionExpiry(sessions[i]) <= h)
    BY <1>5 DEF Scheduled
  <2>2. SessionExpiry(sessions[i]) \in Nat
    BY <2>1, ExpiryBounds
  <2>3. new[i] = sessions[i]
    BY <1>3
  <2>4. SessionExpiry(sessions[i]) <= MaxHeight /\ MaxHeight \in Nat
    BY <2>1, <2>2, ExpiryBounds, SessionAssumption DEF IsSession
  <2> HIDE DEF new, due, stored
  <2>5. i \in due <=> SessionExpiry(sessions[i]) = h + 1
    BY <1>1, <1>5
  <2> QED
    BY <1>5, <2>1, <2>2, <2>3, <2>4, <2>5
<1>6. lost \cup (due \ handled) \subseteq stored \ handled
  <2>1. lost \subseteq stored
    BY DEF Scheduled
  <2> QED
    BY <1>1, <2>1
<1> HIDE DEF new, due, stored
<1>7. QED
  <2>1. Scheduled(index \ {EntryOf(sessions, i) : i \in handled}, ids, new, none, lost \cup (due \ handled), next)
    BY <1>2, <1>4, <1>5, <1>6, Zenon DEF Scheduled
  <2> QED
    BY <2>1 DEF new, due

(* So does one that loses all of them.                                     *)
LEMMA NothingHandled ==
    ASSUME NEW index, NEW ids, NEW sessions, NEW none, NEW lost, NEW h \in Nat,
           Scheduled(index, ids, sessions, none, lost, h),
           NEW next, next = IF h < MaxHeight THEN h + 1 ELSE h
    PROVE  Scheduled(index, ids, sessions, none, lost \cup DueAtEndOf(index, h), next)
<1> DEFINE handled == {}
           same == Remaining(ids, sessions, none, handled)
<1>1. handled \in SUBSET DueAtEndOf(index, h)
  OBVIOUS
<1>2. /\ index \ {EntryOf(sessions, i) : i \in handled} = index
      /\ lost \cup (DueAtEndOf(index, h) \ handled) = lost \cup DueAtEndOf(index, h)
      /\ \A i \in ids : same[i] = sessions[i]
  BY DEF Remaining
<1> HIDE DEF handled
<1>3. Scheduled(index \ {EntryOf(sessions, i) : i \in handled}, ids, same, none,
                lost \cup (DueAtEndOf(index, h) \ handled), next)
  BY <1>1, BlockScheduled, Zenon
<1> HIDE DEF same
<1>4. Scheduled(index, ids, same, none, lost \cup DueAtEndOf(index, h), next)
  BY <1>2, <1>3
<1>5. Stored(ids, same, none) = Stored(ids, sessions, none)
  BY <1>2 DEF Stored
<1>6. \A i \in Stored(ids, sessions, none) : same[i] = sessions[i] /\ EntryOf(same, i) = EntryOf(sessions, i)
  BY <1>2 DEF Stored, EntryOf
<1> QED
  BY <1>4, <1>5, <1>6 DEF Scheduled

-----------------------------------------------------------------------------
(* Keys and sessions.                                                      *)

Thresholds == {t \in [num : Nat, den : Nat] : IsThreshold(t)}

\* a key that may still miss public keys
IsPendingKey(key) ==
    /\ key \in AllKeys
    /\ IsThreshold(key.threshold)
    /\ key.pubKeys \subseteq key.snap.participants

IsKey(key) == IsPendingKey(key) /\ Meets(key.snap, key.pubKeys, key.threshold)

KeygenInv(s) ==
    /\ s \in [state : {"Pending", "Completed"}, key : AllKeys, threshold : Thresholds,
              expiresAt : Nat, completedAt : Nat, grace : Nat]
    /\ IsPendingKey(s.key)
    /\ GTE(s.threshold, s.key.threshold)
    /\ s.state = "Completed" => KeyWeight(s.key) >= PassingWeight(s.key, s.threshold)

SigningInv(s) ==
    /\ s \in [state : {"Pending", "Completed"}, keyID : KeyIDs, key : AllKeys, sigs : SUBSET Validators,
              expiresAt : Nat, completedAt : Nat, grace : Nat]
    /\ IsKey(s.key)
    /\ s.sigs \subseteq s.key.pubKeys
    /\ s.state = "Completed" <=> SigWeight(s) >= PassingWeight(s.key, s.key.threshold)

(* Weights of sets of validators are natural numbers and one more          *)
(* validator never lowers them.                                            *)
LEMMA WeightGrows ==
    ASSUME NEW s \in Snapshots, NEW A \in SUBSET Validators, NEW v \in Validators
    PROVE  /\ s.bonded \in Nat
           /\ s.weight[A] \in Nat
           /\ s.weight[A \cup {v}] \in Nat
           /\ s.weight[A \cup {v}] >= s.weight[A]
<1>1. IsSnapshot(s, Validators)
  BY SessionAssumption
<1>2. s.weight \in [SUBSET Validators -> Nat] /\ s.bonded \in Nat
  BY <1>1 DEF IsSnapshot
<1>3. CASE v \in A
  <2>1. A \cup {v} = A
    BY <1>3
  <2>2. s.weight[A] \in Nat
    BY <1>2
  <2>3. s.weight[A \cup {v}] = s.weight[A]
    BY <2>1, Zenon
  <2> QED
    BY <1>2, <2>2, <2>3
<1>4. CASE v \notin A
  <2>1. A \cap {v} = {} /\ {v} \in SUBSET Validators
    BY <1>4
  <2>2. s.weight[A \cup {v}] = s.weight[A] + s.weight[{v}]
    BY <1>1, <2>1, Zenon DEF IsSnapshot
  <2>3. s.weight[{v}] \in Nat /\ s.weight[A] \in Nat
    BY <1>2
  <2> QED
    BY <1>2, <2>2, <2>3
<1> QED
  BY <1>3, <1>4

(* The passing weight is a natural number.                                 *)
LEMMA PassingWeightType ==
    ASSUME NEW key, key.snap \in Snapshots, NEW t, IsThreshold(t)
    PROVE  PassingWeight(key, t) \in Nat
<1>1. key.snap.bonded \in Nat
  BY SessionAssumption DEF IsSnapshot
<1>2. t.num \in Nat /\ t.den \in Nat \ {0}
  BY DEF IsThreshold
<1>3. key.snap.bonded * t.num \in Nat
  BY <1>1, <1>2
<1>4. ASSUME NEW x \in Nat, NEW y \in Nat \ {0} PROVE x \div y \in Nat
  OBVIOUS
<1>5. (key.snap.bonded * t.num) \div t.den \in Nat
  BY <1>2, <1>3, <1>4
<1> QED
  BY <1>5 DEF PassingWeight, CalculateMinPassingWeight

(* A submission completes a session at most once, at the height of the     *)
(* block, and leaves its times alone otherwise.                            *)
LEMMA CompleteTimes ==
    ASSUME NEW s, IsSession(s), NEW h \in Nat, IsOpen(s, h),
           NEW added, IsSession(added), added.state = s.state, added.expiresAt = s.expiresAt,
           added.completedAt = s.completedAt, added.grace = s.grace,
           NEW enough \in BOOLEAN, NEW new,
           new.state = IF s.state # "Completed" /\ enough THEN "Completed" ELSE s.state,
           new.completedAt = IF s.state # "Completed" /\ enough THEN h ELSE s.completedAt,
           new.expiresAt = s.expiresAt, new.grace = s.grace
    PROVE  /\ IsSession(new)
           /\ SessionExpiry(new) > h
           /\ s.state = "Completed" => SessionExpiry(new) = SessionExpiry(s)
BY DEF IsSession, IsOpen, isExpired, isWithinGracePeriod, SessionExpiry

(* AddKey, within the time of a session, keeps it well formed.             *)
LEMMA AddKeyEffect ==
    ASSUME NEW s, KeygenInv(s), IsSession(s), NEW h \in Nat, IsOpen(s, h),
           NEW v \in Validators, v \in s.key.snap.participants \ s.key.pubKeys
    PROVE  LET new == AddKey(s, h, v)
           IN  /\ KeygenInv(new) /\ IsSession(new)
               /\ new.expiresAt = s.expiresAt
               /\ SessionExpiry(new) > h
               /\ s.state = "Completed" => SessionExpiry(new) = SessionExpiry(s)
<1> DEFINE added == [s EXCEPT !.key.pubKeys = @ \cup {v}]
           enough == KeyWeight(added.key) >= PassingWeight(s.key, s.threshold)
           new == AddKey(s, h, v)
<1>1. /\ s \in [state : {"Pending", "Completed"}, key : AllKeys, threshold : Thresholds,
                expiresAt : Nat, completedAt : Nat, grace : Nat]
      /\ s.key \in AllKeys /\ s.key.pubKeys \in SUBSET Validators /\ s.key.snap \in Snapshots
  BY DEF KeygenInv, AllKeys
<1>2. /\ added.state = s.state /\ added.threshold = s.threshold
      /\ added.expiresAt = s.expiresAt /\ added.completedAt = s.completedAt /\ added.grace = s.grace
      /\ added.key = [s.key EXCEPT !.pubKeys = @ \cup {v}]
      /\ added \in [state : {"Pending", "Completed"}, key : AllKeys, threshold : Thresholds,
                    expiresAt : Nat, completedAt : Nat, grace : Nat]
  BY <1>1 DEF AllKeys
<1>3. /\ added.key.snap = s.key.snap /\ added.key.threshold = s.key.threshold
      /\ added.key.pubKeys = s.key.pubKeys \cup {v}
  BY <1>1, <1>2 DEF AllKeys
<1>4. new = Complete(added, h, enough)
  BY DEF AddKey
<1> HIDE DEF added, new
<1>5. /\ new.state = IF s.state # "Completed" /\ enough THEN "Completed" ELSE s.state
      /\ new.completedAt = IF s.state # "Completed" /\ enough THEN h ELSE s.completedAt
      /\ new.expiresAt = s.expiresAt /\ new.grace = s.grace
      /\ new.key = added.key /\ new.threshold = s.threshold
      /\ new \in [state : {"Pending", "Completed"}, key : AllKeys, threshold : Thresholds,
                  expiresAt : Nat, completedAt : Nat, grace : Nat]
  BY <1>1, <1>2, <1>4, Zenon DEF Complete
<1>6. IsSession(added)
  BY <1>2 DEF IsSession
<1>7. /\ IsSession(new)
      /\ SessionExpiry(new) > h
      /\ s.state = "Completed" => SessionExpiry(new) = SessionExpiry(s)
  <2> HIDE DEF enough
  <2>1. enough \in BOOLEAN
    BY DEF enough
  <2> QED
    BY <1>2, <1>5, <1>6, <2>1, CompleteTimes
<1>8. KeyWeight(new.key) >= KeyWeight(s.key) /\ KeyWeight(new.key) \in Nat /\ KeyWeight(s.key) \in Nat
  BY <1>1, <1>3, <1>5, WeightGrows, Zenon DEF KeyWeight
<1>9. /\ PassingWeight(new.key, new.threshold) = PassingWeight(s.key, s.threshold)
      /\ PassingWeight(s.key, s.threshold) \in Nat
  <2>1. IsThreshold(s.threshold)
    BY <1>1 DEF Thresholds
  <2> QED
    BY <1>1, <1>3, <1>5, <2>1, PassingWeightType DEF PassingWeight
<1>10. new.state = "Completed" => KeyWeight(new.key) >= PassingWeight(new.key, new.threshold)
  BY <1>5, <1>8, <1>9 DEF KeygenInv
<1>11. IsPendingKey(new.key) /\ GTE(new.threshold, new.key.threshold)
  BY <1>3, <1>5 DEF IsPendingKey, KeygenInv
<1>12. KeygenInv(new)
  BY <1>5, <1>10, <1>11 DEF KeygenInv
<1> QED
  BY <1>5, <1>7, <1>12 DEF new

(* AddSig, within the time of a session, keeps it well formed.             *)
LEMMA AddSigEffect ==
    ASSUME NEW s, SigningInv(s), IsSession(s), NEW h \in Nat, IsOpen(s, h),
           NEW v \in Validators, v \in s.key.pubKeys \ s.sigs
    PROVE  LET new == AddSig(s, h, v)
           IN  /\ SigningInv(new) /\ IsSession(new)
               /\ new.expiresAt = s.expiresAt /\ new.key = s.key
               /\ SessionExpiry(new) > h
               /\ s.state = "Completed" => SessionExpiry(new) = SessionExpiry(s)
<1> DEFINE added == [s EXCEPT !.sigs = @ \cup {v}]
           enough == SigWeight(added) >= PassingWeight(s.key, s.key.threshold)
           new == AddSig(s, h, v)
           types == [state : {"Pending", "Completed"}, keyID : KeyIDs, key : AllKeys, sigs : SUBSET Validators,
                     expiresAt : Nat, completedAt : Nat, grace : Nat]
<1>1. s \in types /\ s.key.snap \in Snapshots /\ IsThreshold(s.key.threshold)
  BY DEF SigningInv, IsKey, IsPendingKey, AllKeys
<1>2. /\ added.state = s.state /\ added.key = s.key
      /\ added.expiresAt = s.expiresAt /\ added.completedAt = s.completedAt /\ added.grace = s.grace
      /\ added.sigs = s.sigs \cup {v}
      /\ added \in types
  BY <1>1
<1>4. new = Complete(added, h, enough)
  BY DEF AddSig
<1> HIDE DEF added, new
<1>5. /\ new.state = IF s.state # "Completed" /\ enough THEN "Completed" ELSE s.state
      /\ new.completedAt = IF s.state # "Completed" /\ enough THEN h ELSE s.completedAt
      /\ new.expiresAt = s.expiresAt /\ new.grace = s.grace
      /\ new.key = s.key /\ new.sigs = added.sigs
      /\ new \in types
  BY <1>1, <1>2, <1>4, Zenon DEF Complete
<1>6. IsSession(added)
  BY <1>2 DEF IsSession
<1>7. /\ IsSession(new)
      /\ SessionExpiry(new) > h
      /\ s.state = "Completed" => SessionExpiry(new) = SessionExpiry(s)
  <2> HIDE DEF enough, types
  <2>1. enough \in BOOLEAN
    BY DEF enough
  <2> QED
    BY <1>2, <1>5, <1>6, <2>1, CompleteTimes
<1>8. /\ SigWeight(new) >= SigWeight(s)
      /\ SigWeight(new) \in Nat /\ SigWeight(s) \in Nat
      /\ SigWeight(new) = SigWeight(added)
  <2>1. s.sigs \in SUBSET Validators
    BY <1>1
  <2>2. /\ SigWeight(s) = s.key.snap.weight[s.sigs]
        /\ SigWeight(new) = s.key.snap.weight[s.sigs \cup {v}]
        /\ SigWeight(added) = s.key.snap.weight[s.sigs \cup {v}]
    BY <1>2, <1>5 DEF SigWeight
  <2> HIDE DEF types, enough
  <2>3. ASSUME NEW n \in Snapshots, NEW A \in SUBSET Validators
        PROVE  /\ n.weight[A] \in Nat /\ n.weight[A \cup {v}] \in Nat
               /\ n.weight[A \cup {v}] >= n.weight[A]
    BY WeightGrows
  <2>4. /\ s.key.snap.weight[s.sigs] \in Nat /\ s.key.snap.weight[s.sigs \cup {v}] \in Nat
        /\ s.key.snap.weight[s.sigs \cup {v}] >= s.key.snap.weight[s.sigs]
    BY <1>1, <2>1, <2>3, Zenon
  <2> QED
    BY <2>2, <2>4
<1>9. /\ PassingWeight(new.key, new.key.threshold) = PassingWeight(s.key, s.key.threshold)
      /\ PassingWeight(s.key, s.key.threshold) \in Nat
  BY <1>1, <1>5, PassingWeightType
<1>10. new.state = "Completed" <=> SigWeight(new) >= PassingWeight(new.key, new.key.threshold)
  BY <1>1, <1>5, <1>8, <1>9 DEF SigningInv
<1>11. IsKey(new.key) /\ new.sigs \subseteq new.key.pubKeys
  BY <1>2, <1>5 DEF SigningInv
<1>12. SigningInv(new)
  BY <1>5, <1>10, <1>11 DEF SigningInv
<1> QED
  BY <1>5, <1>7, <1>12 DEF new

-----------------------------------------------------------------------------
(* The inductive invariant.                                                *)

LostKeygens == {k \in KeyIDs : <<"keygen", k>> \in dropped}
LostSignings == {i \in SigIDs : <<"signing", i>> \in dropped}

Justified(o) ==
    /\ o.callback \in {"completed", "failed"}
    /\ o.session.key \in AllKeys
    /\ o.session.sigs \subseteq o.session.key.pubKeys
    /\ o.callback = "completed" <=> Meets(o.session.key.snap, o.session.sigs, o.session.key.threshold)
    /\ \/ o.at = o.session.expiresAt - 1
       \/ /\ o.callback = "completed"
          /\ o.at = o.session.completedAt + o.session.grace
          /\ o.at < o.session.expiresAt

KeygenPart ==
    /\ DOMAIN keygens = KeyIDs
    /\ Scheduled(keygenExpiry, KeyIDs, keygens, NoKeygen, LostKeygens, height)
    /\ \A k \in KeyIDs : keygens[k] # NoKeygen => KeygenInv(keygens[k])
    /\ \A k \in KeyIDs : keys[k] # NoKey => IsKey(keys[k])

SigningPart ==
    /\ DOMAIN signings = SigIDs
    /\ sigCount \in Nat
    /\ Scheduled(signingExpiry, SigIDs, signings, NoSigning, LostSignings, height)
    /\ \A i \in SigIDs : signings[i] # NoSigning =>
          SigningInv(signings[i]) /\ i < sigCount /\ outcome[i] = NoOutcome
    /\ \A i \in SigIDs : outcome[i] # NoOutcome => i < sigCount /\ Justified(outcome[i])

SessionsInv ==
    /\ height \in Nat
    /\ params \in ParamValues
    /\ KeygenPart
    /\ SigningPart

(* Stored sessions are told from missing ones by their state.              *)
LEMMA SessionExists ==
    ASSUME NEW s, IsSession(s)
    PROVE  s # NoKeygen /\ s # NoSigning /\ s.state # "none"
BY DEF IsSession, NoKeygen, NoSigning

(* The genesis keys can sign, and there are no sessions.                   *)
LEMMA SessionsInitInv == SessionsInit => SessionsInv
<1> SUFFICES ASSUME SessionsInit PROVE SessionsInv
  OBVIOUS
<1> USE DEF SessionsInit
<1>1. height \in Nat /\ params \in ParamValues
  OBVIOUS
<1>2. /\ Scheduled(keygenExpiry, KeyIDs, keygens, NoKeygen, LostKeygens, height)
      /\ Scheduled(signingExpiry, SigIDs, signings, NoSigning, LostSignings, height)
  BY DEF Scheduled, Stored, LostKeygens, LostSignings
<1>3. ASSUME NEW k \in KeyIDs, keys[k] # NoKey PROVE IsKey(keys[k])
  <2>1. k \in DOMAIN GenesisKeys /\ keys[k] = GenesisKeys[k]
    BY <1>3
  <2> DEFINE key == GenesisKeys[k]
  <2>2. /\ key \in AllKeys
        /\ IsThreshold(key.threshold)
        /\ key.pubKeys \subseteq key.snap.participants
        /\ key.snap.weight[key.pubKeys] >= CalculateMinPassingWeight(key.snap.bonded, key.threshold)
    BY <2>1, SessionAssumption
  <2>3. key.snap \in Snapshots /\ key.pubKeys \in SUBSET Validators
    BY <2>2 DEF AllKeys
  <2>4. key.snap.weight[key.pubKeys] \in Nat /\ key.snap.bonded \in Nat
    BY <2>3, SessionAssumption DEF IsSnapshot
  <2>5. Meets(key.snap, key.pubKeys, key.threshold)
    BY <2>2, <2>4, PassingMeets DEF Meets
  <2> QED
    BY <2>1, <2>2, <2>5 DEF IsKey, IsPendingKey
<1> QED
  BY <1>1, <1>2, <1>3 DEF SessionsInv, KeygenPart, SigningPart

-----------------------------------------------------------------------------
(* Keygen sessions, step by step.                                          *)

LEMMA StartKeygenPart ==
    ASSUME SessionsInv, NEW k \in KeyIDs, StartKeygen(k)
    PROVE  KeygenPart'
<1> DEFINE newOf(s) ==
        [state |-> "Pending",
         key |-> [snap |-> s, threshold |-> params.signingThreshold, pubKeys |-> {}],
         threshold |-> params.keygenThreshold,
         expiresAt |-> height + params.keygenTimeout,
         completedAt |-> 0, grace |-> params.keygenGrace]
<1>1. PICK s \in Snapshots :
          /\ keygens' = [keygens EXCEPT ![k] = newOf(s)]
          /\ keygenExpiry' = Reindexed(keygenExpiry, newOf(s), k)
  BY Zenon DEF StartKeygen
<1> DEFINE new == newOf(s)
<1>2. /\ params \in ParamValues
      /\ IsThreshold(params.keygenThreshold) /\ IsThreshold(params.signingThreshold)
      /\ params.keygenTimeout \in Nat \ {0} /\ params.keygenGrace \in Nat
      /\ height \in Nat /\ MaxHeight \in Nat
      /\ height + params.keygenTimeout <= MaxHeight
      /\ GTE(params.keygenThreshold, params.signingThreshold)
  BY SessionAssumption, Zenon DEF SessionsInv, StartKeygen
<1>3. keygens[k] = NoKeygen
  <2>1. keygens[k].state = "none"
    BY DEF StartKeygen
  <2> QED
    BY <2>1, Zenon DEF SessionsInv, KeygenPart, KeygenInv
<1>4. IsSession(new)
  BY <1>2 DEF IsSession
<1>5. SessionExpiry(new) > height
  BY <1>2 DEF SessionExpiry
<1>6. KeygenInv(new)
  <2>1. new.key \in AllKeys
    BY <1>2 DEF AllKeys
  <2>2. params.keygenThreshold \in Thresholds
    BY <1>2 DEF Thresholds, IsThreshold
  <2>3. IsPendingKey(new.key)
    BY <1>2, <2>1 DEF IsPendingKey
  <2>4. new \in [state : {"Pending", "Completed"}, key : AllKeys, threshold : Thresholds,
                 expiresAt : Nat, completedAt : Nat, grace : Nat]
    BY <1>2, <2>1, <2>2
  <2>5. GTE(new.threshold, new.key.threshold) /\ new.state = "Pending"
    BY <1>2
  <2> QED
    BY <2>3, <2>4, <2>5 DEF KeygenInv
<1> HIDE DEF newOf
<1>7. Scheduled(keygenExpiry', KeyIDs, keygens', NoKeygen, LostKeygens, height)
  <2>1. Scheduled(keygenExpiry, KeyIDs, keygens, NoKeygen, LostKeygens, height) /\ DOMAIN keygens = KeyIDs
    BY DEF SessionsInv, KeygenPart
  <2>2. new # NoKeygen
    BY <1>4, SessionExists
  <2> QED
    BY <1>1, <1>2, <1>3, <1>4, <1>5, <2>1, <2>2, StoreScheduled, Zenon
<1>8. height' = height /\ LostKeygens' = LostKeygens /\ keys' = keys
  BY DEF StartKeygen, LostKeygens
<1> QED
  BY <1>1, <1>6, <1>7, <1>8 DEF SessionsInv, KeygenPart

LEMMA SubmitPubKeyPart ==
    ASSUME SessionsInv, NEW k \in KeyIDs, NEW v \in Validators, SubmitPubKey(k, v)
    PROVE  KeygenPart'
<1> DEFINE s == keygens[k]
           new == AddKey(s, height, v)
<1>1. /\ keygens' = [keygens EXCEPT ![k] = new]
      /\ keygenExpiry' = Reindexed(keygenExpiry, new, k)
      /\ IsOpen(s, height)
      /\ v \in s.key.snap.participants \ s.key.pubKeys
  BY DEF SubmitPubKey
<1>2. /\ Scheduled(keygenExpiry, KeyIDs, keygens, NoKeygen, LostKeygens, height)
      /\ DOMAIN keygens = KeyIDs /\ height \in Nat
  BY DEF SessionsInv, KeygenPart
<1>3. s # NoKeygen
  BY <1>1 DEF IsOpen, NoKeygen
<1>4. KeygenInv(s)
  BY <1>3 DEF SessionsInv, KeygenPart
<1>5. IsSession(s) /\ (k \in LostKeygens <=> SessionExpiry(s) <= height)
  BY <1>2, <1>3 DEF Scheduled, Stored
<1>6. k \notin LostKeygens
  BY <1>1, <1>2, <1>5, InTimeIsOpen, ExpiryBounds
<1> HIDE DEF s
<1>7. /\ KeygenInv(new) /\ IsSession(new)
      /\ new.expiresAt = s.expiresAt
      /\ SessionExpiry(new) > height
      /\ s.state = "Completed" => SessionExpiry(new) = SessionExpiry(s)
  BY <1>1, <1>2, <1>4, <1>5, AddKeyEffect, Zenon
<1>8. new # NoKeygen
  BY <1>7, SessionExists
<1> HIDE DEF new
<1>9. Scheduled(keygenExpiry', KeyIDs, keygens', NoKeygen, LostKeygens, height)
  BY <1>1, <1>2, <1>6, <1>7, <1>8, StoreScheduled, Zenon DEF s
<1>10. height' = height /\ LostKeygens' = LostKeygens /\ keys' = keys
  BY DEF SubmitPubKey, LostKeygens
<1> QED
  BY <1>1, <1>7, <1>9, <1>10, Zenon DEF SessionsInv, KeygenPart

(* A completed keygen whose time is over becomes a key that can sign.      *)
LEMMA EndBlockerKeygens ==
    ASSUME SessionsInv, EndBlocker
    PROVE  KeygenPart'
<1>1. /\ Scheduled(keygenExpiry, KeyIDs, keygens, NoKeygen, LostKeygens, height)
      /\ DOMAIN keygens = KeyIDs /\ height \in Nat
  BY DEF SessionsInv, KeygenPart
<1>2. /\ DueKeygens = DueAtEndOf(keygenExpiry, height)
      /\ \A k \in DueKeygens : k \in Stored(KeyIDs, keygens, NoKeygen)
  BY <1>1, DueSessions DEF DueKeygens
<1>3. /\ keygens' = Remaining(KeyIDs, keygens, NoKeygen, DueKeygens)
      /\ keygenExpiry' = keygenExpiry \ {EntryOf(keygens, k) : k \in DueKeygens}
      /\ height' = IF height < MaxHeight THEN height + 1 ELSE height
  BY DEF EndBlocker, handleKeygens, NextBlock, Remaining, EntryOf
<1>4. LostKeygens' = LostKeygens \cup (DueAtEndOf(keygenExpiry, height) \ DueKeygens)
  <2>1. PICK failing \in SUBSET DueSignings : dropped' = dropped \cup {<<"signing", i>> : i \in failing}
    BY DEF EndBlocker
  <2>2. \A k : <<"keygen", k>> \in dropped' <=> <<"keygen", k>> \in dropped
    BY <2>1
  <2> QED
    BY <1>2, <2>2 DEF LostKeygens
<1>5. Scheduled(keygenExpiry', KeyIDs, keygens', NoKeygen, LostKeygens', height')
  BY <1>1, <1>2, <1>3, <1>4, BlockScheduled
<1>6. ASSUME NEW k \in KeyIDs, keygens'[k] # NoKeygen PROVE KeygenInv(keygens'[k])
  BY <1>3, <1>6 DEF Remaining, SessionsInv, KeygenPart
<1>7. ASSUME NEW k \in KeyIDs, keys'[k] # NoKey PROVE IsKey(keys'[k])
  <2>1. CASE k \in DueKeygens /\ keygens[k].state = "Completed"
    <3> DEFINE s == keygens[k]
    <3>1. keys'[k] = s.key
      BY <2>1 DEF EndBlocker, handleKeygens
    <3>2. KeygenInv(s)
      BY <1>2, <2>1 DEF Stored, SessionsInv, KeygenPart
    <3> HIDE DEF s
    <3>3. /\ IsPendingKey(s.key) /\ IsThreshold(s.threshold) /\ IsThreshold(s.key.threshold)
          /\ GTE(s.threshold, s.key.threshold)
          /\ KeyWeight(s.key) >= PassingWeight(s.key, s.threshold)
      BY <3>2, <2>1, Zenon DEF KeygenInv, Thresholds, IsPendingKey, s
    <3>4. s.key.snap.weight[s.key.pubKeys] \in Nat /\ s.key.snap.bonded \in Nat
      BY <3>3, SessionAssumption DEF IsPendingKey, AllKeys, IsSnapshot
    <3>5. s.key.snap.weight[s.key.pubKeys] * s.threshold.den >= s.key.snap.bonded * s.threshold.num
      BY <3>3, <3>4, PassingMeets DEF KeyWeight, PassingWeight
    <3>6. Meets(s.key.snap, s.key.pubKeys, s.key.threshold)
      BY <3>3, <3>4, <3>5, LowerThreshold DEF Meets
    <3> QED
      BY <3>1, <3>3, <3>6 DEF IsKey
  <2>2. CASE ~ (k \in DueKeygens /\ keygens[k].state = "Completed")
    <3>1. keys'[k] = keys[k]
      BY <2>2 DEF EndBlocker, handleKeygens
    <3> QED
      BY <1>7, <3>1 DEF SessionsInv, KeygenPart
  <2> QED
    BY <2>1, <2>2
<1>8. DOMAIN keygens' = KeyIDs
  BY <1>3 DEF Remaining
<1> QED
  BY <1>5, <1>6, <1>7, <1>8 DEF KeygenPart

LEMMA EndBlockerErrorKeygens ==
    ASSUME SessionsInv, EndBlockerError
    PROVE  KeygenPart'
<1>1. /\ Scheduled(keygenExpiry, KeyIDs, keygens, NoKeygen, LostKeygens, height)
      /\ DOMAIN keygens = KeyIDs /\ height \in Nat
  BY DEF SessionsInv, KeygenPart
<1>2. /\ DueKeygens = DueAtEndOf(keygenExpiry, height)
      /\ \A k \in DueKeygens : k \in KeyIDs
  BY <1>1, DueSessions DEF DueKeygens, Stored
<1>3. /\ keygens' = keygens /\ keygenExpiry' = keygenExpiry /\ keys' = keys
      /\ height' = IF height < MaxHeight THEN height + 1 ELSE height
  BY DEF EndBlockerError, NextBlock, keygenVars
<1>4. LostKeygens' = LostKeygens \cup DueAtEndOf(keygenExpiry, height)
  <2>1. \A k : <<"keygen", k>> \in dropped' <=> <<"keygen", k>> \in dropped \/ k \in DueKeygens
    BY DEF EndBlockerError
  <2> QED
    BY <1>2, <2>1 DEF LostKeygens
<1>5. Scheduled(keygenExpiry, KeyIDs, keygens, NoKeygen, LostKeygens', height')
  BY <1>1, <1>3, <1>4, NothingHandled
<1> QED
  BY <1>1, <1>3, <1>5 DEF SessionsInv, KeygenPart

LEMMA OtherStepsKeygens ==
    ASSUME SessionsInv, UNCHANGED <<height, keygens, keygenExpiry, keys, dropped>>
    PROVE  KeygenPart'
BY DEF SessionsInv, KeygenPart, LostKeygens

-----------------------------------------------------------------------------
(* Signing sessions, step by step.                                         *)

LEMMA SignPart ==
    ASSUME SessionsInv, NEW k \in KeyIDs, Sign(k)
    PROVE  SigningPart'
<1> DEFINE new == [state |-> "Pending", keyID |-> k, key |-> keys[k], sigs |-> {},
                   expiresAt |-> height + params.signingTimeout,
                   completedAt |-> 0, grace |-> params.signingGrace]
<1>1. /\ signings' = [signings EXCEPT ![sigCount] = new]
      /\ signingExpiry' = Reindexed(signingExpiry, new, sigCount)
      /\ sigCount' = sigCount + 1
      /\ keys[k] # NoKey /\ sigCount < SigBound
      /\ height + params.signingTimeout <= MaxHeight
  BY Zenon DEF Sign
<1>2. /\ params.signingTimeout \in Nat \ {0} /\ params.signingGrace \in Nat
      /\ height \in Nat /\ MaxHeight \in Nat /\ SigBound \in Nat /\ sigCount \in Nat
  BY SessionAssumption DEF SessionsInv, SigningPart
<1>3. sigCount \in SigIDs
  BY <1>1, <1>2 DEF SigIDs
<1>4. signings[sigCount] = NoSigning /\ outcome[sigCount] = NoOutcome
  BY <1>2, <1>3 DEF SessionsInv, SigningPart
<1>5. IsKey(keys[k])
  BY <1>1 DEF SessionsInv, KeygenPart
<1>6. IsSession(new) /\ SessionExpiry(new) > height
  BY <1>1, <1>2 DEF IsSession, SessionExpiry
<1>7. SigningInv(new)
  <2>1. /\ keys[k] \in AllKeys /\ keys[k].snap \in Snapshots /\ IsThreshold(keys[k].threshold)
    BY <1>5 DEF IsKey, IsPendingKey, AllKeys
  <2>2. ~ Meets(keys[k].snap, {}, keys[k].threshold)
    BY <2>1, NobodyMeets
  <2>3. keys[k].snap.bonded \in Nat /\ keys[k].snap.weight[{}] \in Nat
    BY <2>1, SessionAssumption DEF IsSnapshot
  <2>4. ~ (keys[k].snap.weight[{}] >= CalculateMinPassingWeight(keys[k].snap.bonded, keys[k].threshold))
    BY <2>1, <2>2, <2>3, PassingMeets, Zenon DEF Meets
  <2>5. ~ (SigWeight(new) >= PassingWeight(new.key, new.key.threshold))
    BY <2>4 DEF SigWeight, PassingWeight
  <2>6. new \in [state : {"Pending", "Completed"}, keyID : KeyIDs, key : AllKeys, sigs : SUBSET Validators,
                 expiresAt : Nat, completedAt : Nat, grace : Nat]
    BY <1>2, <2>1
  <2>7. new.key = keys[k] /\ new.sigs = {} /\ new.state = "Pending"
    OBVIOUS
  <2> HIDE DEF new
  <2> QED
    BY <1>5, <2>5, <2>6, <2>7 DEF SigningInv
<1>8. new # NoSigning
  BY <1>6, SessionExists, Zenon
<1> HIDE DEF new
<1>9. Scheduled(signingExpiry', SigIDs, signings', NoSigning, LostSignings, height)
  <2>1. Scheduled(signingExpiry, SigIDs, signings, NoSigning, LostSignings, height) /\ DOMAIN signings = SigIDs
    BY DEF SessionsInv, SigningPart
  <2> QED
    BY <1>1, <1>2, <1>3, <1>4, <1>6, <1>8, <2>1, StoreScheduled, Zenon
<1>10. height' = height /\ LostSignings' = LostSignings /\ outcome' = outcome
  BY DEF Sign, LostSignings
<1>11. ASSUME NEW i \in SigIDs
       PROVE  /\ signings'[i] # NoSigning =>
                    SigningInv(signings'[i]) /\ i < sigCount' /\ outcome'[i] = NoOutcome
              /\ outcome'[i] # NoOutcome => i < sigCount' /\ Justified(outcome'[i])
  <2>1. i \in Nat
    BY <1>2 DEF SigIDs
  <2>2. /\ signings[i] # NoSigning => SigningInv(signings[i]) /\ i < sigCount /\ outcome[i] = NoOutcome
        /\ outcome[i] # NoOutcome => i < sigCount /\ Justified(outcome[i])
        /\ DOMAIN signings = SigIDs
    BY DEF SessionsInv, SigningPart
  <2>3. signings'[i] = IF i = sigCount THEN new ELSE signings[i]
    BY <1>1, <2>2
  <2> QED
    BY <1>1, <1>2, <1>4, <1>7, <1>10, <2>1, <2>2, <2>3
<1>12. DOMAIN signings' = SigIDs /\ sigCount' \in Nat
  BY <1>1, <1>2 DEF SessionsInv, SigningPart
<1> QED
  BY <1>9, <1>10, <1>11, <1>12 DEF SigningPart

LEMMA SubmitSignaturePart ==
    ASSUME SessionsInv, NEW i \in SigIDs, NEW v \in Validators, SubmitSignature(i, v)
    PROVE  /\ SigningPart'
           /\ signings[i] # NoSigning /\ signings'[i] # NoSigning
           /\ signings'[i].key = signings[i].key
           /\ \A j \in SigIDs : j # i => signings'[j] = signings[j]
<1> DEFINE s == signings[i]
           new == AddSig(s, height, v)
<1>1. /\ signings' = [signings EXCEPT ![i] = new]
      /\ signingExpiry' = Reindexed(signingExpiry, new, i)
      /\ IsOpen(s, height)
      /\ v \in s.key.pubKeys \ s.sigs
  BY DEF SubmitSignature
<1>2. /\ Scheduled(signingExpiry, SigIDs, signings, NoSigning, LostSignings, height)
      /\ DOMAIN signings = SigIDs /\ height \in Nat
  BY DEF SessionsInv, SigningPart
<1>3. s # NoSigning
  BY <1>1 DEF IsOpen, NoSigning
<1>4. SigningInv(s) /\ i < sigCount /\ outcome[i] = NoOutcome
  BY <1>3 DEF SessionsInv, SigningPart
<1>5. IsSession(s) /\ (i \in LostSignings <=> SessionExpiry(s) <= height)
  BY <1>2, <1>3 DEF Scheduled, Stored
<1>6. i \notin LostSignings
  BY <1>1, <1>2, <1>5, InTimeIsOpen, ExpiryBounds
<1> HIDE DEF s
<1>7. /\ SigningInv(new) /\ IsSession(new)
      /\ new.expiresAt = s.expiresAt /\ new.key = s.key
      /\ SessionExpiry(new) > height
      /\ s.state = "Completed" => SessionExpiry(new) = SessionExpiry(s)
  BY <1>1, <1>2, <1>4, <1>5, AddSigEffect
<1>8. new # NoSigning
  BY <1>7, SessionExists
<1> HIDE DEF new
<1>9. Scheduled(signingExpiry', SigIDs, signings', NoSigning, LostSignings, height)
  BY <1>1, <1>2, <1>6, <1>7, <1>8, StoreScheduled, Zenon DEF s
<1>10. height' = height /\ LostSignings' = LostSignings /\ outcome' = outcome /\ sigCount' = sigCount
  BY DEF SubmitSignature, LostSignings
<1>11. SigningPart'
  BY <1>1, <1>4, <1>7, <1>9, <1>10 DEF SessionsInv, SigningPart
<1> QED
  BY <1>1, <1>2, <1>3, <1>7, <1>8, <1>11, Zenon DEF s

(* The callback of a session that ends with this block is justified.       *)
LEMMA CallbackIsJustified ==
    ASSUME NEW s, SigningInv(s), IsSession(s), height \in Nat, SessionExpiry(s) = height + 1
    PROVE  Justified(Callback(s)) /\ Callback(s) # NoOutcome
<1> DEFINE o == Callback(s)
<1>1. /\ o.session = s /\ o.at = height
      /\ o.callback = IF s.state = "Completed" THEN "completed" ELSE "failed"
  BY DEF Callback
<1> HIDE DEF o
<1>2. /\ s.key \in AllKeys /\ s.key.snap \in Snapshots /\ IsThreshold(s.key.threshold)
      /\ s.sigs \in SUBSET Validators
  BY DEF SigningInv, IsKey, IsPendingKey, AllKeys
<1>3. s.key.snap.bonded \in Nat /\ s.key.snap.weight[s.sigs] \in Nat
  BY <1>2, SessionAssumption DEF IsSnapshot
<1>4. s.state = "Completed" <=> Meets(s.key.snap, s.sigs, s.key.threshold)
  BY <1>2, <1>3, PassingMeets DEF SigningInv, SigWeight, PassingWeight, Meets
<1>5. \/ height = s.expiresAt - 1
      \/ s.state = "Completed" /\ height = s.completedAt + s.grace /\ height < s.expiresAt
  BY ExpiryBounds DEF IsSession
<1>6. o # NoOutcome
  BY <1>1 DEF NoOutcome
<1>7. Justified(o)
  BY <1>1, <1>2, <1>4, <1>5 DEF Justified, SigningInv
<1> QED
  BY <1>6, <1>7 DEF o

LEMMA EndBlockerSignings ==
    ASSUME SessionsInv, EndBlocker
    PROVE  SigningPart'
<1>1. /\ Scheduled(signingExpiry, SigIDs, signings, NoSigning, LostSignings, height)
      /\ DOMAIN signings = SigIDs /\ height \in Nat
  BY DEF SessionsInv, SigningPart
<1>2. /\ DueSignings = DueAtEndOf(signingExpiry, height)
      /\ \A i \in DueSignings : i \in SigIDs /\ signings[i] # NoSigning /\ SessionExpiry(signings[i]) = height + 1
  BY <1>1, DueSessions DEF DueSignings, Stored
<1>3. PICK failing \in SUBSET DueSignings :
          /\ handleSignings(failing)
          /\ dropped' = dropped \cup {<<"signing", i>> : i \in failing}
  BY DEF EndBlocker
<1> DEFINE handled == DueSignings \ failing
<1>4. /\ signings' = Remaining(SigIDs, signings, NoSigning, handled)
      /\ signingExpiry' = signingExpiry \ {EntryOf(signings, i) : i \in handled}
      /\ outcome' = [i \in SigIDs |-> IF i \in handled THEN Callback(signings[i]) ELSE outcome[i]]
      /\ height' = IF height < MaxHeight THEN height + 1 ELSE height
      /\ sigCount' = sigCount
  BY <1>3 DEF handleSignings, EndBlocker, NextBlock, Remaining, EntryOf
<1>5. LostSignings' = LostSignings \cup (DueAtEndOf(signingExpiry, height) \ handled)
  <2>1. \A i : <<"signing", i>> \in dropped' <=> <<"signing", i>> \in dropped \/ i \in failing
    BY <1>3
  <2> QED
    BY <1>2, <2>1 DEF LostSignings
<1>6. handled \in SUBSET DueAtEndOf(signingExpiry, height)
  BY <1>2
<1> HIDE DEF handled
<1>7. Scheduled(signingExpiry', SigIDs, signings', NoSigning, LostSignings', height')
  BY <1>1, <1>4, <1>5, <1>6, BlockScheduled, Zenon
<1>8. ASSUME NEW i \in SigIDs
      PROVE  /\ signings'[i] # NoSigning =>
                   SigningInv(signings'[i]) /\ i < sigCount' /\ outcome'[i] = NoOutcome
             /\ outcome'[i] # NoOutcome => i < sigCount' /\ Justified(outcome'[i])
  <2>1. /\ signings[i] # NoSigning => SigningInv(signings[i]) /\ i < sigCount /\ outcome[i] = NoOutcome
        /\ outcome[i] # NoOutcome => i < sigCount /\ Justified(outcome[i])
    BY DEF SessionsInv, SigningPart
  <2>2. CASE i \in handled
    <3>1. signings[i] # NoSigning /\ SessionExpiry(signings[i]) = height + 1
      BY <1>2, <1>6, <2>2
    <3>2. IsSession(signings[i])
      BY <1>1, <3>1 DEF Scheduled, Stored
    <3>3. Justified(Callback(signings[i]))
      BY <1>1, <2>1, <3>1, <3>2, CallbackIsJustified
    <3>4. signings'[i] = NoSigning /\ outcome'[i] = Callback(signings[i])
      BY <1>4, <2>2 DEF Remaining
    <3> QED
      BY <1>4, <2>1, <3>1, <3>3, <3>4
  <2>3. CASE i \notin handled
    <3>1. signings'[i] = signings[i] /\ outcome'[i] = outcome[i]
      BY <1>4, <2>3 DEF Remaining
    <3> QED
      BY <1>4, <2>1, <3>1
  <2> QED
    BY <2>2, <2>3
<1>9. DOMAIN signings' = SigIDs /\ sigCount' \in Nat
  BY <1>4 DEF Remaining, SessionsInv, SigningPart
<1> QED
  BY <1>7, <1>8, <1>9 DEF SigningPart

LEMMA EndBlockerErrorSignings ==
    ASSUME SessionsInv, EndBlockerError
    PROVE  SigningPart'
<1>1. /\ Scheduled(signingExpiry, SigIDs, signings, NoSigning, LostSignings, height)
      /\ DOMAIN signings = SigIDs /\ height \in Nat
  BY DEF SessionsInv, SigningPart
<1>2. /\ DueSignings = DueAtEndOf(signingExpiry, height)
      /\ \A i \in DueSignings : i \in SigIDs
  BY <1>1, DueSessions DEF DueSignings, Stored
<1>3. /\ signings' = signings /\ signingExpiry' = signingExpiry /\ sigCount' = sigCount
      /\ outcome' = outcome
      /\ height' = IF height < MaxHeight THEN height + 1 ELSE height
  BY DEF EndBlockerError, NextBlock, signingVars
<1>4. LostSignings' = LostSignings \cup DueAtEndOf(signingExpiry, height)
  <2>1. \A i : <<"signing", i>> \in dropped' <=> <<"signing", i>> \in dropped \/ i \in DueSignings
    BY DEF EndBlockerError
  <2> QED
    BY <1>2, <2>1 DEF LostSignings
<1>5. Scheduled(signingExpiry, SigIDs, signings, NoSigning, LostSignings', height')
  BY <1>1, <1>3, <1>4, NothingHandled
<1> QED
  BY <1>1, <1>3, <1>5 DEF SessionsInv, SigningPart

LEMMA OtherStepsSignings ==
    ASSUME SessionsInv, UNCHANGED <<height, signings, signingExpiry, sigCount, outcome, dropped>>
    PROVE  SigningPart'
BY DEF SessionsInv, SigningPart, LostSignings

(* Every step keeps the invariant.                                         *)
LEMMA SessionsStep ==
    ASSUME SessionsInv, [SessionsNext]_sessionVars
    PROVE  SessionsInv'
<1> USE DEF keygenVars, signingVars
<1>1. ASSUME NEW k \in KeyIDs, StartKeygen(k) PROVE SessionsInv'
  BY <1>1, StartKeygenPart, OtherStepsSignings, Zenon DEF SessionsInv, StartKeygen
<1>2. ASSUME NEW k \in KeyIDs, NEW v \in Validators, SubmitPubKey(k, v) PROVE SessionsInv'
  BY <1>2, SubmitPubKeyPart, OtherStepsSignings, Zenon DEF SessionsInv, SubmitPubKey
<1>3. ASSUME NEW k \in KeyIDs, Sign(k) PROVE SessionsInv'
  BY <1>3, SignPart, OtherStepsKeygens, Zenon DEF SessionsInv, Sign
<1>4. ASSUME NEW i \in SigIDs, NEW v \in Validators, SubmitSignature(i, v) PROVE SessionsInv'
  BY <1>4, SubmitSignaturePart, OtherStepsKeygens, Zenon DEF SessionsInv, SubmitSignature
<1>5. ASSUME NEW v, KeygenOptOut(v) \/ KeygenOptIn(v) PROVE SessionsInv'
  BY <1>5, OtherStepsKeygens, OtherStepsSignings DEF SessionsInv, KeygenOptOut, KeygenOptIn
<1>6. CASE UpdateParams \/ ChangeActiveKeys
  BY <1>6, OtherStepsKeygens, OtherStepsSignings DEF SessionsInv, UpdateParams, ChangeActiveKeys
<1>7. CASE EndBlocker
  <2>1. height' \in Nat /\ params' = params
    BY <1>7 DEF EndBlocker, NextBlock, SessionsInv
  <2> QED
    BY <1>7, <2>1, EndBlockerKeygens, EndBlockerSignings DEF SessionsInv
<1>8. CASE EndBlockerError
  <2>1. height' \in Nat /\ params' = params
    BY <1>8 DEF EndBlockerError, NextBlock, SessionsInv
  <2> QED
    BY <1>8, <2>1, EndBlockerErrorKeygens, EndBlockerErrorSignings DEF SessionsInv
<1>9. CASE UNCHANGED sessionVars
  BY <1>9, OtherStepsKeygens, OtherStepsSignings DEF SessionsInv, sessionVars
<1> QED
  BY <1>1, <1>2, <1>3, <1>4, <1>5, <1>6, <1>7, <1>8, <1>9 DEF SessionsNext

LEMMA SessionsInvariance == SessionsSpec => []SessionsInv
<1>1. SessionsInit => SessionsInv
  BY SessionsInitInv
<1>2. SessionsInv /\ [SessionsNext]_sessionVars => SessionsInv'
  BY SessionsStep
<1> QED
  BY <1>1, <1>2, PTL DEF SessionsSpec

-----------------------------------------------------------------------------
(* Theorems.                                                               *)

(* Every key can sign: its participants meet its signing threshold, since  *)
(* StartKeygen refuses a keygen threshold below the signing threshold.     *)
THEOREM UsableKeys == SessionsSpec => []KeysCanSign
<1>1. SessionsInv => KeysCanSign
  BY DEF SessionsInv, KeygenPart, IsKey, KeysCanSign
<1> QED
  BY <1>1, SessionsInvariance, PTL

(* The expiry index and the stored sessions match, and a stored session    *)
(* whose handling did not fail accepts submissions.                        *)
THEOREM IndexConsistency == SessionsSpec => []IndexMatchesSessions
<1>1. ASSUME SessionsInv PROVE IndexMatchesSessions
  <2>1. keygenExpiry = {<<SessionExpiry(keygens[k]), k>> : k \in {j \in KeyIDs : keygens[j] # NoKeygen}}
    BY <1>1 DEF SessionsInv, KeygenPart, Scheduled, Stored, EntryOf
  <2>2. signingExpiry = {<<SessionExpiry(signings[i]), i>> : i \in {j \in SigIDs : signings[j] # NoSigning}}
    BY <1>1 DEF SessionsInv, SigningPart, Scheduled, Stored, EntryOf
  <2>3. ASSUME NEW k \in KeyIDs, keygens[k] # NoKeygen, <<"keygen", k>> \notin dropped
        PROVE  IsOpen(keygens[k], height)
    <3>1. IsSession(keygens[k]) /\ ~ (SessionExpiry(keygens[k]) <= height) /\ height \in Nat
      BY <1>1, <2>3 DEF SessionsInv, KeygenPart, Scheduled, Stored, LostKeygens
    <3> QED
      BY <3>1, InTimeIsOpen, ExpiryBounds
  <2>4. ASSUME NEW i \in SigIDs, signings[i] # NoSigning, <<"signing", i>> \notin dropped
        PROVE  IsOpen(signings[i], height)
    <3>1. IsSession(signings[i]) /\ ~ (SessionExpiry(signings[i]) <= height) /\ height \in Nat
      BY <1>1, <2>4 DEF SessionsInv, SigningPart, Scheduled, Stored, LostSignings
    <3> QED
      BY <3>1, InTimeIsOpen, ExpiryBounds
  <2> QED
    BY <2>1, <2>2, <2>3, <2>4 DEF IndexMatchesSessions
<1> QED
  BY <1>1, SessionsInvariance, PTL

(* A callback says completed exactly when participants with the signing    *)
(* threshold's weight signed, and comes when the session ends.             *)
THEOREM JustCallbacks == SessionsSpec => []CallbackJustified
<1>1. ASSUME SessionsInv PROVE CallbackJustified
  <2>1. ASSUME NEW i \in SigIDs, outcome[i].callback # "none" PROVE Justified(outcome[i])
    <3>1. outcome[i] # NoOutcome
      BY <2>1 DEF NoOutcome
    <3> QED
      BY <1>1, <3>1 DEF SessionsInv, SigningPart
  <2> QED
    BY <2>1 DEF CallbackJustified, Justified
<1> QED
  BY <1>1, SessionsInvariance, PTL

-----------------------------------------------------------------------------
(* The signing service.                                                    *)

StatusOf(i) ==
    IF outcome[i].callback # "none" THEN outcome[i].callback
    ELSE IF <<"signing", i>> \in dropped THEN "lost"
    ELSE IF signings[i] # NoSigning THEN "open" ELSE "none"

serviceKey == [i \in SigIDs |-> SessionOf(i).key]
serviceSigners == [i \in SigIDs |-> outcome[i].session.sigs]

LEMMA NoOutcomeFields == NoOutcome.callback = "none" /\ NoOutcome.session = NoSigning
BY DEF NoOutcome

LEMMA RequestStatus == requestStatus = [i \in SigIDs |-> StatusOf(i)]
<1>1. ASSUME NEW i \in SigIDs PROVE requestStatus[i] = StatusOf(i)
  BY DEF requestStatus, StatusOf
<1> QED
  BY <1>1 DEF requestStatus

(* Without sessions every request is unknown to the service.               *)
LEMMA ServiceStarts == SessionsInit => Service!ServiceInit
<1> SUFFICES ASSUME SessionsInit PROVE Service!ServiceInit
  OBVIOUS
<1>1. \A i \in SigIDs : outcome[i] = NoOutcome /\ signings[i] = NoSigning /\ dropped = {}
  BY DEF SessionsInit
<1>2. requestStatus = [i \in SigIDs |-> "none"]
  BY <1>1, RequestStatus DEF StatusOf, NoOutcome
<1>3. [i \in SigIDs |-> SessionOf(i).key] = [i \in SigIDs |-> NoKey]
  BY <1>1 DEF SessionOf, NoOutcome, NoSigning
<1>4. [i \in SigIDs |-> outcome[i].session.sigs] = [i \in SigIDs |-> {}]
  BY <1>1 DEF NoOutcome, NoSigning
<1> QED
  BY <1>2, <1>3, <1>4 DEF Service!ServiceInit

(* A step that leaves status, key and signers of every request alone.      *)
LEMMA ServiceStutters ==
    ASSUME \A i \in SigIDs : /\ StatusOf(i)' = StatusOf(i)
                             /\ SessionOf(i).key' = SessionOf(i).key
                             /\ outcome'[i].session.sigs = outcome[i].session.sigs
    PROVE  UNCHANGED Service!serviceVars
<1>1. requestStatus' = requestStatus
  <2>1. requestStatus = [i \in SigIDs |-> StatusOf(i)]
    BY RequestStatus
  <2>2. ASSUME NEW i \in SigIDs PROVE requestStatus'[i] = StatusOf(i)'
    BY DEF requestStatus, StatusOf
  <2>3. requestStatus' = [i \in SigIDs |-> requestStatus'[i]]
    BY DEF requestStatus
  <2> QED
    BY <2>1, <2>2, <2>3
<1>2. serviceKey' = serviceKey
  BY DEF serviceKey
<1>3. serviceSigners' = serviceSigners
  BY DEF serviceSigners
<1> QED
  BY <1>1, <1>2, <1>3 DEF Service!serviceVars, serviceKey, serviceSigners

(* Sign makes a request with a key.                                        *)
LEMMA SignRequests ==
    ASSUME SessionsInv, NEW k \in KeyIDs, Sign(k)
    PROVE  Service!Request(sigCount, keys[k]) /\ sigCount \in SigIDs /\ keys[k] \in AllKeys
<1>1. PICK n \in SigIDs : n = sigCount
  <2>1. sigCount \in Nat /\ sigCount < SigBound /\ SigBound \in Nat
    BY SessionAssumption, Zenon DEF Sign, SessionsInv, SigningPart
  <2> QED
    BY <2>1 DEF SigIDs
<1>2. signings[n] = NoSigning /\ outcome[n] = NoOutcome /\ DOMAIN signings = SigIDs
  BY <1>1 DEF SessionsInv, SigningPart
<1>3. <<"signing", n>> \notin dropped
  <2>1. LostSignings \subseteq Stored(SigIDs, signings, NoSigning)
    BY DEF SessionsInv, SigningPart, Scheduled
  <2> QED
    BY <1>1, <1>2, <2>1 DEF Stored, LostSignings
<1>4. /\ outcome' = outcome /\ dropped' = dropped
      /\ signings'[n].key = keys[k] /\ signings'[n] # NoSigning
      /\ \A i \in SigIDs : i # n => signings'[i] = signings[i]
  BY <1>1, <1>2, Zenon DEF Sign, NoSigning
<1>5. keys[k] \in AllKeys
  BY Zenon DEF Sign, SessionsInv, KeygenPart, IsKey, IsPendingKey
<1>6. StatusOf(n) = "none" /\ StatusOf(n)' = "open"
  BY <1>2, <1>3, <1>4, NoOutcomeFields DEF StatusOf
<1>7. \A i \in SigIDs : i # n => StatusOf(i)' = StatusOf(i)
  BY <1>4 DEF StatusOf
<1>8. requestStatus[n] = "none" /\ requestStatus' = [requestStatus EXCEPT ![n] = "open"]
  <2>1. requestStatus = [i \in SigIDs |-> StatusOf(i)]
    BY RequestStatus
  <2>2. ASSUME NEW i \in SigIDs PROVE requestStatus'[i] = StatusOf(i)'
    BY DEF requestStatus, StatusOf
  <2>3. requestStatus' = [i \in SigIDs |-> requestStatus'[i]]
    BY DEF requestStatus
  <2> QED
    BY <1>1, <1>6, <1>7, <2>1, <2>2, <2>3
<1>9. serviceKey' = [serviceKey EXCEPT ![n] = keys[k]]
  <2>1. SessionOf(n)' = signings'[n] /\ \A i \in SigIDs : i # n => SessionOf(i)' = SessionOf(i)
    BY <1>2, <1>4, NoOutcomeFields DEF SessionOf
  <2> QED
    BY <1>1, <1>4, <2>1, Zenon DEF serviceKey
<1>10. serviceSigners' = serviceSigners
  BY <1>4 DEF serviceSigners
<1> QED
  BY <1>1, <1>5, <1>8, <1>9, <1>10 DEF Service!Request, serviceKey, serviceSigners

(* An end blocker resolves the requests whose sessions end: those it       *)
(* handles get a callback, the others are lost.                            *)
LEMMA BlockResolves ==
    ASSUME SessionsInv, SessionsInv',
           NEW done \in SUBSET SigIDs, NEW lost \in SUBSET SigIDs, done \cap lost = {},
           \A i \in done \cup lost : signings[i] # NoSigning /\ <<"signing", i>> \notin dropped,
           \A i \in done : outcome'[i] = Callback(signings[i]) /\ outcome'[i] # NoOutcome,
           \A i \in SigIDs \ done : outcome'[i] = outcome[i] /\ signings'[i] = signings[i],
           \A i \in SigIDs : <<"signing", i>> \in dropped' <=> <<"signing", i>> \in dropped \/ i \in lost
    PROVE  Service!ServiceNext \/ UNCHANGED Service!serviceVars
<1>1. \A i \in done \cup lost : outcome[i] = NoOutcome
  BY Zenon DEF SessionsInv, SigningPart
<1>2. \A i \in done \cup lost : StatusOf(i) = "open"
  BY <1>1, NoOutcomeFields, Zenon DEF StatusOf
<1>3. \A i \in lost : StatusOf(i)' = "lost"
  BY <1>1, NoOutcomeFields, Zenon DEF StatusOf
<1>4. \A i \in SigIDs \ (done \cup lost) : StatusOf(i)' = StatusOf(i)
  BY Zenon DEF StatusOf
<1>5. ASSUME NEW i \in done PROVE outcome'[i].session = signings[i] /\ Justified(outcome'[i])
  <2>1. Callback(signings[i]).session = signings[i]
    BY DEF Callback
  <2>2. Justified(outcome'[i])
    BY DEF SessionsInv, SigningPart
  <2> QED
    BY <2>1, <2>2
<1>6. \A i \in done : /\ SessionOf(i) = signings[i]
                      /\ SessionOf(i)' = signings[i]
                      /\ StatusOf(i)' = outcome'[i].callback
  BY <1>1, <1>5, NoOutcomeFields, Zenon DEF SessionOf, StatusOf, Justified
<1>7. \A i \in SigIDs \ done : SessionOf(i)' = SessionOf(i)
  BY DEF SessionOf
<1>8. \A i \in done : EnoughFor(serviceKey[i], serviceSigners'[i]) <=> StatusOf(i)' = "completed"
  BY <1>5, <1>6 DEF EnoughFor, serviceKey, serviceSigners, Justified
<1>9. \A i \in done : StatusOf(i)' \in {"completed", "failed"}
  BY <1>5, <1>6 DEF Justified
<1>10. serviceKey' = serviceKey
  BY <1>6, <1>7 DEF serviceKey
<1>11. /\ serviceSigners' \in [SigIDs -> SUBSET Validators]
       /\ \A i \in SigIDs \ done : serviceSigners'[i] = serviceSigners[i]
  <2>1. ASSUME NEW i \in SigIDs PROVE outcome'[i].session.sigs \in SUBSET Validators
    <3>1. CASE outcome'[i] = NoOutcome
      BY <3>1 DEF NoOutcome, NoSigning
    <3>2. CASE outcome'[i] # NoOutcome
      <4>1. Justified(outcome'[i])
        BY <3>2 DEF SessionsInv, SigningPart
      <4> QED
        BY <4>1 DEF Justified, AllKeys
    <3> QED
      BY <3>1, <3>2
  <2> QED
    BY <2>1 DEF serviceSigners
<1>12. /\ requestStatus = [i \in SigIDs |-> StatusOf(i)]
       /\ requestStatus' = [i \in SigIDs |-> StatusOf(i)']
  <2>1. requestStatus = [i \in SigIDs |-> StatusOf(i)]
    BY RequestStatus
  <2>2. ASSUME NEW i \in SigIDs PROVE requestStatus'[i] = StatusOf(i)'
    BY DEF requestStatus, StatusOf
  <2>3. requestStatus' = [i \in SigIDs |-> requestStatus'[i]]
    BY DEF requestStatus
  <2> QED
    BY <2>1, <2>2, <2>3
<1>13. requestStatus' = [i \in SigIDs |->
          IF i \in lost THEN "lost"
          ELSE IF i \in done
               THEN IF EnoughFor(serviceKey[i], serviceSigners'[i]) THEN "completed" ELSE "failed"
               ELSE requestStatus[i]]
  BY <1>3, <1>4, <1>8, <1>9, <1>12
<1>14. CASE done \cup lost = {}
  BY <1>4, <1>7, <1>14, ServiceStutters
<1>15. CASE done \cup lost # {}
  <2>1. \A i \in done \cup lost : requestStatus[i] = "open"
    BY <1>2, <1>12
  <2>2. Service!Resolve(done, lost)
    BY <1>10, <1>11, <1>13, <1>15, <2>1, Zenon DEF Service!Resolve, serviceKey, serviceSigners
  <2> QED
    BY <2>2 DEF Service!ServiceNext
<1> QED
  BY <1>14, <1>15

(* Every step of the sessions is a step of the service or changes nothing  *)
(* the service shows.                                                      *)
LEMMA ServiceSteps ==
    ASSUME SessionsInv, SessionsInv', [SessionsNext]_sessionVars
    PROVE  [Service!ServiceNext]_(Service!serviceVars)
<1> USE DEF keygenVars, signingVars
<1>1. ASSUME UNCHANGED <<signings, outcome, dropped>> PROVE UNCHANGED Service!serviceVars
  <2>1. \A i \in SigIDs : /\ StatusOf(i)' = StatusOf(i)
                          /\ SessionOf(i).key' = SessionOf(i).key
                          /\ outcome'[i].session.sigs = outcome[i].session.sigs
    BY <1>1 DEF StatusOf, SessionOf
  <2> QED
    BY <2>1, ServiceStutters, Zenon
<1>2. ASSUME NEW k \in KeyIDs, Sign(k) PROVE Service!ServiceNext
  BY <1>2, SignRequests DEF Service!ServiceNext
<1>3. ASSUME NEW i \in SigIDs, NEW v \in Validators, SubmitSignature(i, v)
      PROVE  UNCHANGED Service!serviceVars
  <2>1. /\ signings[i] # NoSigning /\ signings'[i] # NoSigning
        /\ signings'[i].key = signings[i].key
        /\ \A j \in SigIDs : j # i => signings'[j] = signings[j]
        /\ outcome' = outcome /\ dropped' = dropped
    BY <1>3, SubmitSignaturePart, Zenon DEF SubmitSignature
  <2>2. \A j \in SigIDs : /\ StatusOf(j)' = StatusOf(j)
                          /\ SessionOf(j).key' = SessionOf(j).key
                          /\ outcome'[j].session.sigs = outcome[j].session.sigs
    BY <2>1, Zenon DEF StatusOf, SessionOf
  <2> QED
    BY <2>2, ServiceStutters
<1>4. ASSUME NEW i \in DueSignings
      PROVE  /\ i \in SigIDs /\ signings[i] # NoSigning /\ <<"signing", i>> \notin dropped
             /\ SigningInv(signings[i]) /\ IsSession(signings[i])
             /\ SessionExpiry(signings[i]) = height + 1 /\ height \in Nat
  <2>1. Scheduled(signingExpiry, SigIDs, signings, NoSigning, LostSignings, height) /\ height \in Nat
    BY Zenon DEF SessionsInv, SigningPart
  <2>2. /\ i \in Stored(SigIDs, signings, NoSigning)
        /\ SessionExpiry(signings[i]) = height + 1
        /\ i \notin LostSignings
    BY <1>4, <2>1, DueSessions DEF DueSignings
  <2> QED
    BY <2>1, <2>2 DEF Stored, LostSignings, Scheduled, SessionsInv, SigningPart
<1>5. CASE EndBlocker
  <2>1. PICK failing \in SUBSET DueSignings :
            /\ handleSignings(failing)
            /\ dropped' = dropped \cup {<<"signing", i>> : i \in failing}
    BY <1>5 DEF EndBlocker
  <2> DEFINE done == DueSignings \ failing
  <2>2. done \in SUBSET SigIDs /\ failing \in SUBSET SigIDs /\ done \cap failing = {}
    BY <1>4, Zenon
  <2>3. \A i \in done \cup failing : signings[i] # NoSigning /\ <<"signing", i>> \notin dropped
    BY <1>4, Zenon
  <2>4. \A i \in done : outcome'[i] = Callback(signings[i])
    BY <2>1, <2>2 DEF handleSignings
  <2>5. \A i \in done : Callback(signings[i]) # NoOutcome
    BY <1>4, CallbackIsJustified, Zenon
  <2>6. \A i \in SigIDs \ done : outcome'[i] = outcome[i] /\ signings'[i] = signings[i]
    BY <2>1 DEF handleSignings
  <2>7. \A i \in SigIDs : <<"signing", i>> \in dropped' <=> <<"signing", i>> \in dropped \/ i \in failing
    BY <2>1
  <2> HIDE DEF done
  <2> QED
    BY <2>2, <2>3, <2>4, <2>5, <2>6, <2>7, BlockResolves
<1>6. CASE EndBlockerError
  <2> DEFINE done == {}
  <2>1. done \in SUBSET SigIDs /\ DueSignings \in SUBSET SigIDs /\ done \cap DueSignings = {}
    BY <1>4, Zenon
  <2>2. \A i \in done \cup DueSignings : signings[i] # NoSigning /\ <<"signing", i>> \notin dropped
    BY <1>4, Zenon
  <2>3. \A i \in done : outcome'[i] = Callback(signings[i]) /\ outcome'[i] # NoOutcome
    OBVIOUS
  <2>4. \A i \in SigIDs \ done : outcome'[i] = outcome[i] /\ signings'[i] = signings[i]
    BY <1>6 DEF EndBlockerError
  <2>5. \A i \in SigIDs : <<"signing", i>> \in dropped' <=> <<"signing", i>> \in dropped \/ i \in DueSignings
    BY <1>6 DEF EndBlockerError
  <2> HIDE DEF done
  <2> QED
    BY <2>1, <2>2, <2>3, <2>4, <2>5, BlockResolves
<1>7. CASE \E k \in KeyIDs : StartKeygen(k)
  BY <1>1, <1>7, Zenon DEF StartKeygen
<1>8. CASE \E k \in KeyIDs, v \in Validators : SubmitPubKey(k, v)
  BY <1>1, <1>8 DEF SubmitPubKey
<1>9. CASE \E v : KeygenOptOut(v) \/ KeygenOptIn(v)
  BY <1>1, <1>9 DEF KeygenOptOut, KeygenOptIn
<1>10. CASE UpdateParams \/ ChangeActiveKeys \/ UNCHANGED sessionVars
  BY <1>1, <1>10 DEF UpdateParams, ChangeActiveKeys, sessionVars
<1> QED
  BY <1>2, <1>3, <1>5, <1>6, <1>7, <1>8, <1>9, <1>10 DEF SessionsNext

(* The sessions implement the safety part of the signing service: at most  *)
(* one callback per request, completed only with enough signatures of the  *)
(* key requested, and none for a request that is lost.                     *)
THEOREM SafeSigningService == SessionsSpec => Service!ServiceInit /\ [][Service!ServiceNext]_(Service!serviceVars)
<1>1. SessionsInit => Service!ServiceInit
  BY ServiceStarts
<1>2. SessionsInv /\ SessionsInv' /\ [SessionsNext]_sessionVars => [Service!ServiceNext]_(Service!serviceVars)
  BY ServiceSteps
<1> QED
  BY <1>1, <1>2, SessionsInvariance, PTL DEF SessionsSpec
=============================================================================
