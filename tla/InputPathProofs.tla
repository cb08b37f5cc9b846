---------------------------- MODULE InputPathProofs ----------------------------
(* Proofs, for any number of keyboards, keys and records and any ring, that   *)
(* doom gets what is typed in order, never gets what ccs already had, and     *)
(* that no key sticks.                                                       *)
EXTENDS InputPath, TLAPS

-----------------------------------------------------------------------------
(* Records in order.                                                       *)

(* Of each keyboard, the records of S are older than those of T outside A.    *)
Before(S, T, A) == \A s \in S, t \in T \ A : s.kbd = t.kbd => s.n < t.n

(* Only a record of A comes after one that is not older.                      *)
InOrder(s, A) ==
    \A i, j \in DOMAIN s :
        i < j /\ s[i].kbd = s[j].kbd /\ s[j] \notin A => s[i].n < s[j].n

(* s is a release of the key of r.                                           *)
Lifts(s, r) == s.kbd = r.kbd /\ s.key = r.key /\ s.brk

(* After each press of s comes a release of its key, in s or in what follows,  *)
(* T, or the key is still held.                                              *)
ComesUp(keys, s, T) ==
    \A i \in DOMAIN s :
        \/ s[i].brk
        \/ s[i].key \in keys[s[i].kbd]
        \/ \E j \in DOMAIN s : i < j /\ Lifts(s[j], s[i])
        \/ \E t \in T : Lifts(t, s[i])

-----------------------------------------------------------------------------
(* The inductive invariant.                                                *)

(* What the callbacks have mirrored, and what is still to be, now or again.   *)
Mirrored == RangeOf(dispatched) \cup RangeOf(result[Doom]) \cup RangeOf(queue)

Unmirrored(b) ==
    RangeOf(wire[b]) \cup (IF callback[b] = "queue" THEN RangeOf(batch[b]) ELSE {})

Coming == UNION {Unmirrored(b) : b \in Keyboards}

(* A poll has answered only what is then dispatched; doom starts afresh.      *)
GameInv ==
    /\ game # "dispatch" => result[Doom] = <<>>
    /\ game = "start" => dispatched = <<>> /\ down = {}

(* What kbdclass has not taken keeps its order and is younger than what it    *)
(* has; what is to be mirrored for the first time is younger than all that    *)
(* has been.                                                                 *)
WireInv ==
    \A b \in Keyboards :
        /\ InOrder(wire[b], {}) /\ InOrder(batch[b], {})
        /\ \A r \in RangeOf(wire[b]) \cup RangeOf(batch[b]) : r.kbd = b /\ r.n <= produced
        /\ Before(RangeOf(batch[b]), RangeOf(wire[b]), {})
        /\ Before(ccs, RangeOf(batch[b]) \cup RangeOf(wire[b]), {})
        /\ Before(Mirrored, Unmirrored(b), again)

(* What was mirrored once keeps that order: dispatched, returned, in the ring. *)
RingInv ==
    /\ InOrder(queue, again) /\ InOrder(result[Doom], again)
    /\ Before(RangeOf(result[Doom]), RangeOf(queue), again)
    /\ Before(RangeOf(dispatched), RangeOf(result[Doom]) \cup RangeOf(queue), again)
    /\ \A r \in Mirrored \cup ccs : r.n <= produced

(* What ccs had when doom opened the device is not on the way to the engine.  *)
StaleInv ==
    /\ stale \subseteq ccs
    /\ Running => Mirrored \cap stale = {}

(* A press that kbdclass has not taken is followed by its release,            *)
ReleaseInv ==
    \A b \in Keyboards :
        /\ ComesUp(held, wire[b], {})
        /\ ComesUp(held, batch[b], RangeOf(wire[b]))

(* and, unless records were dropped, so is one in the ring, one that was      *)
(* returned, and a doom key that is down.                                    *)
StuckInv ==
    Running /\ ~lost /\ keyboard_available =>
        /\ ComesUp(held, queue, Coming)
        /\ ComesUp(held, result[Doom], RangeOf(queue) \cup Coming)
        /\ \A d \in down : \E b \in Keyboards, key \in Keys :
              /\ scan_code_to_doom(key) = d
              /\ \/ key \in held[b]
                 \/ \E r \in RangeOf(result[Doom]) \cup RangeOf(queue) \cup Coming :
                        r.kbd = b /\ r.key = key /\ r.brk

IInv ==
    /\ TypeOK /\ GameInv /\ WireInv /\ RingInv /\ StaleInv /\ ReleaseInv
    /\ StuckInv

-----------------------------------------------------------------------------
(* Sequences of records, cut and joined.                                    *)

Front(s, n) == [i \in 1..n |-> s[i]]
Back(s, n) == [i \in 1..(Len(s) - n) |-> s[i + n]]

(* What a sequence holds.                                                    *)
LEMMA RangeValue ==
    ASSUME NEW s, NEW r
    PROVE  r \in RangeOf(s) <=> \E i \in DOMAIN s : s[i] = r
BY DEF RangeOf

(* A sequence cut after its first n elements.                                *)
LEMMA Cut ==
    ASSUME NEW s \in Seq(Records), NEW n \in 0..Len(s)
    PROVE  /\ Front(s, n) \in Seq(Records) /\ Len(Front(s, n)) = n
           /\ Back(s, n) \in Seq(Records) /\ Len(Back(s, n)) = Len(s) - n
           /\ RangeOf(s) = RangeOf(Front(s, n)) \cup RangeOf(Back(s, n))
           /\ \A A : InOrder(s, A) =>
                 /\ InOrder(Front(s, n), A) /\ InOrder(Back(s, n), A)
                 /\ Before(RangeOf(Front(s, n)), RangeOf(Back(s, n)), A)
           /\ \A keys, T : ComesUp(keys, s, T) =>
                 /\ ComesUp(keys, Front(s, n), RangeOf(Back(s, n)) \cup T)
                 /\ ComesUp(keys, Back(s, n), T)
<1> DEFINE f == Front(s, n)
           g == Back(s, n)
<1>1. /\ f \in Seq(Records) /\ Len(f) = n /\ DOMAIN f = 1..n
      /\ \A i \in 1..n : f[i] = s[i]
  BY DEF Front
<1>2. /\ g \in Seq(Records) /\ Len(g) = Len(s) - n /\ DOMAIN g = 1..(Len(s) - n)
      /\ \A i \in 1..(Len(s) - n) : g[i] = s[i + n]
  BY DEF Back
<1>3. DOMAIN s = 1..Len(s) /\ Len(s) \in Nat
  OBVIOUS
<1> HIDE DEF f, g
<1>4. \A i \in 1..n : i \in 1..Len(s)
  BY <1>3
<1>5. \A i \in 1..(Len(s) - n) : i + n \in 1..Len(s)
  BY <1>3
<1>6. \A i \in 1..Len(s) : i \in 1..n \/ (i - n \in 1..(Len(s) - n) /\ (i - n) + n = i)
  BY <1>3
<1>7. RangeOf(s) = RangeOf(f) \cup RangeOf(g)
  <2>1. ASSUME NEW r \in RangeOf(s) PROVE r \in RangeOf(f) \cup RangeOf(g)
    <3>1. PICK i \in 1..Len(s) : s[i] = r
      BY <2>1, <1>3, RangeValue
    <3>2. CASE i \in 1..n
      BY <3>1, <3>2, <1>1, RangeValue
    <3>3. CASE i - n \in 1..(Len(s) - n) /\ (i - n) + n = i
      BY <3>1, <3>3, <1>2, RangeValue
    <3> QED
      BY <3>2, <3>3, <1>6
  <2>2. ASSUME NEW r \in RangeOf(f) PROVE r \in RangeOf(s)
    BY <2>2, <1>1, <1>3, <1>4, RangeValue
  <2>3. ASSUME NEW r \in RangeOf(g) PROVE r \in RangeOf(s)
    BY <2>3, <1>2, <1>3, <1>5, RangeValue
  <2> QED
    BY <2>1, <2>2, <2>3
<1>8. ASSUME NEW A, InOrder(s, A)
      PROVE InOrder(f, A) /\ InOrder(g, A) /\ Before(RangeOf(f), RangeOf(g), A)
  <2>1. InOrder(f, A)
    BY <1>1, <1>3, <1>4, <1>8 DEF InOrder
  <2>2. InOrder(g, A)
    <3> SUFFICES ASSUME NEW i \in 1..(Len(s) - n), NEW j \in 1..(Len(s) - n),
                        i < j, g[i].kbd = g[j].kbd, g[j] \notin A
                 PROVE  g[i].n < g[j].n
      BY <1>2 DEF InOrder
    <3>1. i + n \in DOMAIN s /\ j + n \in DOMAIN s /\ i + n < j + n
      BY <1>3, <1>5
    <3> QED
      BY <1>2, <1>8, <3>1 DEF InOrder
  <2>3. Before(RangeOf(f), RangeOf(g), A)
    <3> SUFFICES ASSUME NEW r \in RangeOf(f), NEW t \in RangeOf(g) \ A, r.kbd = t.kbd
                 PROVE  r.n < t.n
      BY DEF Before
    <3>1. PICK i \in 1..n : f[i] = r
      BY <1>1, RangeValue
    <3>2. PICK j \in 1..(Len(s) - n) : g[j] = t
      BY <1>2, RangeValue
    <3>3. i \in DOMAIN s /\ j + n \in DOMAIN s /\ i < j + n
      BY <1>3, <1>4, <1>5
    <3> QED
      BY <3>1, <3>2, <3>3, <1>1, <1>2, <1>8 DEF InOrder
  <2> QED
    BY <2>1, <2>2, <2>3
<1>9. ASSUME NEW keys, NEW T, ComesUp(keys, s, T)
      PROVE  ComesUp(keys, f, RangeOf(g) \cup T) /\ ComesUp(keys, g, T)
  <2>1. ComesUp(keys, f, RangeOf(g) \cup T)
    <3> SUFFICES ASSUME NEW i \in 1..n, ~f[i].brk, f[i].key \notin keys[f[i].kbd],
                        ~\E t \in RangeOf(g) \cup T : Lifts(t, f[i])
                 PROVE  \E j \in 1..n : i < j /\ Lifts(f[j], f[i])
      BY <1>1 DEF ComesUp
    <3>1. PICK j \in 1..Len(s) : i < j /\ Lifts(s[j], f[i])
      BY <1>1, <1>3, <1>4, <1>9 DEF ComesUp
    <3>2. CASE j \in 1..n
      BY <1>1, <3>1, <3>2
    <3>3. CASE j - n \in 1..(Len(s) - n) /\ (j - n) + n = j
      BY <1>2, <3>1, <3>3, RangeValue
    <3> QED
      BY <1>6, <3>2, <3>3
  <2>2. ComesUp(keys, g, T)
    <3> SUFFICES ASSUME NEW i \in 1..(Len(s) - n), ~g[i].brk,
                        g[i].key \notin keys[g[i].kbd], ~\E t \in T : Lifts(t, g[i])
                 PROVE  \E j \in 1..(Len(s) - n) : i < j /\ Lifts(g[j], g[i])
      BY <1>2 DEF ComesUp
    <3>1. PICK j \in 1..Len(s) : i + n < j /\ Lifts(s[j], g[i])
      BY <1>2, <1>3, <1>5, <1>9 DEF ComesUp
    <3>2. j - n \in 1..(Len(s) - n) /\ (j - n) + n = j /\ i < j - n
      BY <3>1
    <3> QED
      BY <1>2, <3>1, <3>2
  <2> QED
    BY <2>1, <2>2
<1> QED
  BY <1>1, <1>2, <1>7, <1>8, <1>9 DEF f, g

(* Two sequences, one after the other.                                       *)
LEMMA Join ==
    ASSUME NEW s \in Seq(Records), NEW t \in Seq(Records)
    PROVE  /\ s \o t \in Seq(Records) /\ Len(s \o t) = Len(s) + Len(t)
           /\ RangeOf(s \o t) = RangeOf(s) \cup RangeOf(t)
           /\ \A A : InOrder(s, A) /\ InOrder(t, A) /\ Before(RangeOf(s), RangeOf(t), A) =>
                 InOrder(s \o t, A)
           /\ \A keys, T : ComesUp(keys, s, RangeOf(t) \cup T) /\ ComesUp(keys, t, T) =>
                 ComesUp(keys, s \o t, T)
<1> DEFINE u == s \o t
<1>1. /\ u \in Seq(Records) /\ Len(u) = Len(s) + Len(t)
      /\ \A i \in 1..(Len(s) + Len(t)) : u[i] = IF i <= Len(s) THEN s[i] ELSE t[i - Len(s)]
  OBVIOUS
<1>2. /\ Len(s) \in Nat /\ Len(t) \in Nat
      /\ DOMAIN s = 1..Len(s) /\ DOMAIN t = 1..Len(t) /\ DOMAIN u = 1..(Len(s) + Len(t))
  BY <1>1
<1> HIDE DEF u
<1>3. \A i \in DOMAIN s : i \in DOMAIN u /\ u[i] = s[i]
  BY <1>1, <1>2
<1>4. \A i \in DOMAIN t : i + Len(s) \in DOMAIN u /\ u[i + Len(s)] = t[i]
  BY <1>1, <1>2
<1>5. \A i \in DOMAIN u : \/ i \in DOMAIN s /\ u[i] = s[i]
                          \/ i > Len(s) /\ i - Len(s) \in DOMAIN t /\ u[i] = t[i - Len(s)]
  BY <1>1, <1>2
<1>6. RangeOf(u) = RangeOf(s) \cup RangeOf(t)
  BY <1>3, <1>4, <1>5, RangeValue
<1>7. ASSUME NEW A, InOrder(s, A), InOrder(t, A), Before(RangeOf(s), RangeOf(t), A)
      PROVE  InOrder(u, A)
  <2> SUFFICES ASSUME NEW i \in DOMAIN u, NEW j \in DOMAIN u, i < j, u[i].kbd = u[j].kbd,
                      u[j] \notin A
               PROVE  u[i].n < u[j].n
    BY DEF InOrder
  <2>1. CASE j \in DOMAIN s /\ u[j] = s[j]
    <3>1. i \in DOMAIN s /\ u[i] = s[i]
      BY <1>2, <1>3, <2>1
    <3> QED
      BY <1>7, <2>1, <3>1 DEF InOrder
  <2>2. CASE j > Len(s) /\ j - Len(s) \in DOMAIN t /\ u[j] = t[j - Len(s)]
    <3>1. CASE i \in DOMAIN s /\ u[i] = s[i]
      BY <1>7, <2>2, <3>1, RangeValue DEF Before
    <3>2. CASE i > Len(s) /\ i - Len(s) \in DOMAIN t /\ u[i] = t[i - Len(s)]
      <4>1. i - Len(s) < j - Len(s)
        BY <1>2
      <4> QED
        BY <1>7, <2>2, <3>2, <4>1 DEF InOrder
    <3> QED
      BY <1>5, <3>1, <3>2
  <2> QED
    BY <1>5, <2>1, <2>2
<1>8. ASSUME NEW keys, NEW T, ComesUp(keys, s, RangeOf(t) \cup T), ComesUp(keys, t, T)
      PROVE  ComesUp(keys, u, T)
  <2> SUFFICES ASSUME NEW i \in DOMAIN u, ~u[i].brk, u[i].key \notin keys[u[i].kbd],
                      ~\E r \in T : Lifts(r, u[i])
               PROVE  \E j \in DOMAIN u : i < j /\ Lifts(u[j], u[i])
    BY DEF ComesUp
  <2>1. CASE i \in DOMAIN s /\ u[i] = s[i]
    <3>1. \/ \E j \in DOMAIN s : i < j /\ Lifts(s[j], u[i])
          \/ \E r \in RangeOf(t) : Lifts(r, u[i])
      BY <1>8, <2>1 DEF ComesUp
    <3>2. ASSUME NEW r \in RangeOf(t), Lifts(r, u[i])
          PROVE \E j \in DOMAIN u : i < j /\ Lifts(u[j], u[i])
      <4>1. PICK j \in DOMAIN t : t[j] = r
        BY <3>2, RangeValue
      <4>2. j + Len(s) \in DOMAIN u /\ u[j + Len(s)] = r /\ i < j + Len(s)
        BY <1>2, <1>4, <2>1, <4>1
      <4> QED
        BY <3>2, <4>2
    <3> QED
      BY <1>3, <3>1, <3>2
  <2>2. CASE i > Len(s) /\ i - Len(s) \in DOMAIN t /\ u[i] = t[i - Len(s)]
    <3>1. PICK j \in DOMAIN t : i - Len(s) < j /\ Lifts(t[j], u[i])
      BY <1>8, <2>2 DEF ComesUp
    <3>2. j + Len(s) \in DOMAIN u /\ u[j + Len(s)] = t[j] /\ i < j + Len(s)
      BY <1>2, <1>4, <3>1
    <3> QED
      BY <3>1, <3>2
  <2> QED
    BY <1>5, <2>1, <2>2
<1> QED
  BY <1>1, <1>6, <1>7, <1>8 DEF u

(* What Cut and Join say of releases, one set of keys at a time.              *)
LEMMA CutUp ==
    ASSUME NEW s \in Seq(Records), NEW n \in 0..Len(s), NEW keys, NEW T,
           ComesUp(keys, s, T)
    PROVE  /\ ComesUp(keys, Front(s, n), RangeOf(Back(s, n)) \cup T)
           /\ ComesUp(keys, Back(s, n), T)
BY Cut, Zenon

LEMMA JoinUp ==
    ASSUME NEW s \in Seq(Records), NEW t \in Seq(Records), NEW keys, NEW T,
           ComesUp(keys, s, RangeOf(t) \cup T), ComesUp(keys, t, T)
    PROVE  ComesUp(keys, s \o t, T)
BY Join, Zenon

(* A sequence of one record.                                                 *)
LEMMA Single ==
    ASSUME NEW r \in Records
    PROVE  /\ <<r>> \in Seq(Records) /\ Len(<<r>>) = 1 /\ RangeOf(<<r>>) = {r}
           /\ \A A : InOrder(<<r>>, A)
           /\ \A keys, T : r.brk \/ r.key \in keys[r.kbd] => ComesUp(keys, <<r>>, T)
<1>1. <<r>> \in Seq(Records) /\ Len(<<r>>) = 1 /\ DOMAIN <<r>> = {1} /\ <<r>>[1] = r
  OBVIOUS
<1> QED
  BY <1>1 DEF RangeOf, InOrder, ComesUp

(* The empty one.                                                            *)
LEMMA Empty ==
    /\ <<>> \in Seq(Records) /\ Len(<<>>) = 0 /\ RangeOf(<<>>) = {}
    /\ \A A : InOrder(<<>>, A)
    /\ \A keys, T : ComesUp(keys, <<>>, T)
BY DEF RangeOf, InOrder, ComesUp

(* Order and releases when more is exempt, more follows or other keys are held. *)
LEMMA OrderGrows ==
    ASSUME NEW s, NEW A, NEW B, A \subseteq B, InOrder(s, A)
    PROVE  InOrder(s, B)
BY DEF InOrder

LEMMA BeforeGrows ==
    ASSUME NEW S, NEW T, NEW A, NEW B, A \subseteq B, Before(S, T, A)
    PROVE  Before(S, T, B)
BY DEF Before

LEMMA ComesUpGrows ==
    ASSUME NEW keys, NEW keys2, NEW s, NEW T, NEW U, T \subseteq U, ComesUp(keys, s, T),
           \A r \in RangeOf(s) : \/ r.key \notin keys[r.kbd] \/ r.key \in keys2[r.kbd]
                                 \/ \E t \in U : Lifts(t, r)
    PROVE  ComesUp(keys2, s, U)
<1>1. \A i \in DOMAIN s : s[i] \in RangeOf(s)
  BY DEF RangeOf
<1> QED
  BY <1>1 DEF ComesUp

(* The operators the actions cut and join with.                              *)
LEMMA Append1 ==
    ASSUME NEW s \in Seq(Records), NEW r \in Records
    PROVE  Append(s, r) = s \o <<r>>
OBVIOUS

(* SubSeq cuts a front or a back off.                                         *)
LEMMA SubSeqs ==
    ASSUME NEW s \in Seq(Records), NEW n \in 0..Len(s)
    PROVE  SubSeq(s, 1, n) = Front(s, n) /\ SubSeq(s, n + 1, Len(s)) = Back(s, n)
BY DEF Front, Back

(* Taking the head cuts a front of one off.                                   *)
LEMMA HeadTail ==
    ASSUME NEW s \in Seq(Records), s # <<>>
    PROVE  /\ 1 \in 0..Len(s) /\ Head(s) \in Records
           /\ Front(s, 1) = <<Head(s)>> /\ Tail(s) = Back(s, 1) /\ s = <<Head(s)>> \o Tail(s)
<1>1. Len(s) \in Nat /\ Len(s) # 0 /\ Head(s) = s[1]
  OBVIOUS
<1>2. 1 \in 1..Len(s) /\ Head(s) \in Records
  BY <1>1
<1>3. Front(s, 1) = <<Head(s)>>
  BY <1>1 DEF Front
<1>4. Tail(s) = Back(s, 1)
  <2>1. Tail(s) \in Seq(Records) /\ Len(Tail(s)) = Len(s) - 1
    BY <1>1
  <2>2. Tail(s) \in [1..(Len(s) - 1) -> Records]
    <3>1. ASSUME NEW t \in Seq(Records) PROVE t \in [1..Len(t) -> Records]
      OBVIOUS
    <3> QED
      BY <2>1, <3>1
  <2>3. \A i \in 1..(Len(s) - 1) : Tail(s)[i] = s[i + 1]
    BY <1>1
  <2>4. Back(s, 1) = [i \in 1..(Len(s) - 1) |-> s[i + 1]]
    BY DEF Back
  <2> QED
    BY <2>2, <2>3, <2>4
<1>5. s = <<Head(s)>> \o Tail(s)
  <2> DEFINE u == <<Head(s)>> \o Tail(s)
  <2>1. u \in Seq(Records) /\ Len(u) = Len(s)
    BY <1>1, <1>2
  <2>2. ASSUME NEW i \in 1..Len(s) PROVE u[i] = s[i]
    BY <1>1, <1>2
  <2> QED
    BY <2>1, <2>2
<1> QED
  BY <1>1, <1>2, <1>3, <1>4, <1>5

(* What a ring keeps of a sequence is a back of it that fits.                  *)
LEMMA NewestValue ==
    ASSUME NEW s \in Seq(Records)
    PROVE  LET n == IF Len(s) > RingCapacity THEN Len(s) - RingCapacity ELSE 0
           IN  n \in 0..Len(s) /\ Queue!Newest(s) = Back(s, n) /\ Len(s) - n <= RingCapacity
BY PathAssumption DEF Queue!Newest, Back

(* Nothing cut off leaves the whole.                                          *)
LEMMA WholeBack ==
    ASSUME NEW s \in Seq(Records)
    PROVE  Back(s, 0) = s
BY DEF Back

(* What the first of a sequence waits for, and what the others wait for.       *)
LEMMA HeadUp ==
    ASSUME NEW q \in Seq(Records), NEW r \in Records, NEW keys, NEW T,
           ComesUp(keys, <<r>> \o q, T)
    PROVE  /\ ComesUp(keys, q, T)
           /\ r.brk \/ r.key \in keys[r.kbd] \/ \E t \in RangeOf(q) \cup T : Lifts(t, r)
<1> DEFINE s == <<r>> \o q
<1>1. /\ s \in Seq(Records) /\ Len(s) = Len(q) + 1 /\ DOMAIN s = 1..(Len(q) + 1)
      /\ s[1] = r /\ \A i \in 1..Len(q) : s[i + 1] = q[i]
      /\ DOMAIN q = 1..Len(q) /\ Len(q) \in Nat
  OBVIOUS
<1> HIDE DEF s
<1>2. ComesUp(keys, s, T)
  BY DEF s
<1>3. \A j \in DOMAIN s : j = 1 \/ (j - 1 \in 1..Len(q) /\ s[j] = q[j - 1])
  BY <1>1
<1>4. ComesUp(keys, q, T)
  <2> SUFFICES ASSUME NEW i \in 1..Len(q), ~q[i].brk, q[i].key \notin keys[q[i].kbd],
                      ~\E t \in T : Lifts(t, q[i])
               PROVE  \E j \in 1..Len(q) : i < j /\ Lifts(q[j], q[i])
    BY <1>1 DEF ComesUp
  <2>1. i + 1 \in DOMAIN s /\ s[i + 1] = q[i]
    BY <1>1
  <2>2. PICK j \in DOMAIN s : i + 1 < j /\ Lifts(s[j], q[i])
    BY <1>2, <2>1 DEF ComesUp
  <2>3. j - 1 \in 1..Len(q) /\ s[j] = q[j - 1] /\ i < j - 1
    BY <1>1, <1>3, <2>2
  <2> QED
    BY <2>2, <2>3
<1>5. r.brk \/ r.key \in keys[r.kbd] \/ \E t \in RangeOf(q) \cup T : Lifts(t, r)
  <2>1. 1 \in DOMAIN s
    BY <1>1
  <2>2. \A j \in DOMAIN s : 1 < j => s[j] \in RangeOf(q)
    BY <1>1, <1>3, RangeValue
  <2> QED
    BY <1>1, <1>2, <2>1, <2>2 DEF ComesUp
<1> QED
  BY <1>4, <1>5

-----------------------------------------------------------------------------
(* What the actions do to the way of the records.                           *)

KeyStep(b, key) == Press(b, key) \/ Repeat(b, key) \/ LetGo(b, key)

(* The parts of a frame that leave the records alone.                        *)
QuietStep ==
    \/ Exit \/ PollKeyboard \/ SkipKeyboard \/ PollFails
    \/ Dispatched \/ Update \/ Present

(* The parts of a record, of which the number is positive.                     *)
LEMMA RecordFields ==
    ASSUME NEW r \in Records
    PROVE  /\ r.n \in 1..MaxRecords /\ r.n \in Nat
           /\ r.kbd \in Keyboards /\ r.key \in Keys /\ r.brk \in BOOLEAN
BY PathAssumption DEF Records

(* A press, a repetition or a release puts the newest record on the wire, and *)
(* only a release lets go of its key.                                        *)
LEMMA KeyEffect ==
    ASSUME TypeOK, WireInv, NEW b \in Keyboards, NEW key \in Keys, KeyStep(b, key)
    PROVE  /\ UNCHANGED <<callback, batch, ccs, refusals, again, queue, room, result,
                          game, keyboard_available, down, dispatched, stale, lost>>
           /\ held' \in [Keyboards -> SUBSET Keys] /\ wire' \in [Keyboards -> Seq(Records)]
           /\ press' \in [Keyboards -> [Keys -> 0..MaxRecords]]
           /\ \A c \in Keyboards : \A k \in held'[c] : press'[c][k] # 0
           /\ produced' = produced + 1 /\ produced' \in 0..MaxRecords
           /\ \A c \in Keyboards \ {b} : wire'[c] = wire[c] /\ held'[c] = held[c]
           /\ \E r \in Records :
                 /\ r.n = produced + 1 /\ r.kbd = b
                 /\ RangeOf(wire'[b]) = RangeOf(wire[b]) \cup {r} /\ InOrder(wire'[b], {})
                 /\ wire'[b] = wire[b] \o <<r>>
                 /\ held[b] \ held'[b] \subseteq (IF r.brk THEN {r.key} ELSE {})
                 /\ r.brk \/ r.key \in held'[b]
<1> USE PathAssumption DEF TypeOK
<1>1. PICK brk \in BOOLEAN, of \in 1..MaxRecords :
         /\ Produce(b, key, brk, of)
         /\ held' \in [Keyboards -> SUBSET Keys]
         /\ press' \in [Keyboards -> [Keys -> 0..MaxRecords]]
         /\ \A c \in Keyboards : \A k \in held'[c] : press'[c][k] # 0
         /\ \A c \in Keyboards \ {b} : held'[c] = held[c]
         /\ held[b] \ held'[b] \subseteq (IF brk THEN {key} ELSE {})
         /\ brk \/ key \in held'[b]
  <2>1. CASE Press(b, key)
    <3>1. produced + 1 \in 1..MaxRecords /\ Produce(b, key, FALSE, produced + 1)
      BY <2>1 DEF Press, Produce
    <3>2. /\ held' = [held EXCEPT ![b] = @ \cup {key}]
          /\ press' = [press EXCEPT ![b][key] = produced + 1]
      BY <2>1 DEF Press
    <3>3. held' \in [Keyboards -> SUBSET Keys] /\ press' \in [Keyboards -> [Keys -> 0..MaxRecords]]
      BY <3>1, <3>2
    <3>4. ASSUME NEW c \in Keyboards, NEW k \in held'[c] PROVE press'[c][k] # 0
      <4>1. CASE c = b /\ k = key
        BY <3>1, <3>2, <4>1
      <4>2. CASE c # b \/ k # key
        <5>1. k \in held[c] /\ k \in Keys /\ press'[c][k] = press[c][k]
          BY <3>2, <3>4, <4>2
        <5> QED
          BY <5>1
      <4> QED
        BY <4>1, <4>2
    <3>5. /\ \A c \in Keyboards \ {b} : held'[c] = held[c]
          /\ held[b] \ held'[b] = {} /\ key \in held'[b]
      BY <3>2
    <3> QED
      BY <3>1, <3>3, <3>4, <3>5
  <2>2. CASE Repeat(b, key)
    <3>1. key \in held[b] /\ Produce(b, key, FALSE, press[b][key])
      BY <2>2 DEF Repeat
    <3>2. press[b][key] \in 0..MaxRecords /\ press[b][key] # 0
      BY <3>1
    <3>3. press[b][key] \in 1..MaxRecords
      BY <3>2
    <3>4. held' = held /\ press' = press
      BY <2>2 DEF Repeat
    <3> QED
      BY <3>1, <3>3, <3>4
  <2>3. CASE LetGo(b, key)
    <3>1. key \in held[b] /\ Produce(b, key, TRUE, press[b][key])
      BY <2>3 DEF LetGo
    <3>2. press[b][key] \in 0..MaxRecords /\ press[b][key] # 0
      BY <3>1
    <3>3. press[b][key] \in 1..MaxRecords
      BY <3>2
    <3>4. /\ held' = [held EXCEPT ![b] = @ \ {key}]
          /\ press' = [press EXCEPT ![b][key] = 0]
      BY <2>3 DEF LetGo
    <3>5. held' \in [Keyboards -> SUBSET Keys] /\ press' \in [Keyboards -> [Keys -> 0..MaxRecords]]
      BY <3>4
    <3>6. \A c \in Keyboards : \A k \in held'[c] : press'[c][k] # 0
      <4> SUFFICES ASSUME NEW c \in Keyboards, NEW k \in held'[c] PROVE press'[c][k] # 0
        OBVIOUS
      <4>1. k \in held[c] /\ k \in Keys /\ press'[c][k] = press[c][k]
        BY <3>4
      <4> QED
        BY <4>1
    <3>7. /\ \A c \in Keyboards \ {b} : held'[c] = held[c]
          /\ held[b] \ held'[b] \subseteq {key}
      BY <3>4
    <3> QED
      BY <3>1, <3>3, <3>5, <3>6, <3>7
  <2> QED
    BY <2>1, <2>2, <2>3 DEF KeyStep
<1> DEFINE r == [n |-> produced + 1, press |-> of, kbd |-> b, key |-> key, brk |-> brk]
<1>2. produced' = produced + 1 /\ produced + 1 \in 1..MaxRecords /\ produced' \in 0..MaxRecords
  BY <1>1 DEF Produce
<1>3. r \in Records /\ r.n = produced + 1 /\ r.kbd = b /\ r.key = key /\ r.brk = brk
  BY <1>2 DEF Records
<1>4. wire' = [wire EXCEPT ![b] = Append(wire[b], r)]
  BY <1>1 DEF Produce
<1> HIDE DEF r
<1>5. wire[b] \in Seq(Records) /\ Append(wire[b], r) = wire[b] \o <<r>>
  BY <1>3, Append1
<1>6. Append(wire[b], r) \in Seq(Records)
  BY <1>3, <1>5
<1>7. /\ wire' \in [Keyboards -> Seq(Records)] /\ wire'[b] = wire[b] \o <<r>>
      /\ \A c \in Keyboards \ {b} : wire'[c] = wire[c]
  BY <1>4, <1>5, <1>6
<1>8. InOrder(wire[b], {}) /\ Before(RangeOf(wire[b]), {r}, {})
  <2>1. \A t \in RangeOf(wire[b]) : t \in Records
    BY <1>5 DEF RangeOf
  <2>2. ASSUME NEW t \in RangeOf(wire[b]) PROVE t.n < r.n
    <3>1. t.n <= produced
      BY DEF WireInv
    <3> QED
      BY <1>2, <1>3, <2>1, <3>1, RecordFields
  <2> QED
    BY <2>2 DEF WireInv, Before
<1>9. RangeOf(wire'[b]) = RangeOf(wire[b]) \cup {r} /\ InOrder(wire'[b], {})
  BY <1>3, <1>5, <1>7, <1>8, Join, Single
<1>10. UNCHANGED <<callback, batch, ccs, refusals, again, queue, room, result, game,
                   keyboard_available, down, dispatched, stale, lost>>
  BY <1>1 DEF Produce, filterVars, classVars, queueVars, doomVars, launchVars
<1> QED
  BY <1>1, <1>2, <1>3, <1>7, <1>9, <1>10

(* A service callback begins with a part of what is on the wire.              *)
LEMMA ReportEffect ==
    ASSUME TypeOK, WireInv, NEW b \in Keyboards, Report(b)
    PROVE  /\ UNCHANGED <<held, press, produced, ccs, refusals, again, queue, room, result,
                          game, keyboard_available, down, dispatched, stale, lost>>
           /\ wire' \in [Keyboards -> Seq(Records)] /\ batch' \in [Keyboards -> Seq(Records)]
           /\ callback[b] = "idle" /\ callback' = [callback EXCEPT ![b] = "queue"]
           /\ \A c \in Keyboards \ {b} : wire'[c] = wire[c] /\ batch'[c] = batch[c]
           /\ \E n \in 0..Len(wire[b]) :
                 batch'[b] = Front(wire[b], n) /\ wire'[b] = Back(wire[b], n)
           /\ RangeOf(wire[b]) = RangeOf(batch'[b]) \cup RangeOf(wire'[b])
           /\ InOrder(batch'[b], {}) /\ InOrder(wire'[b], {})
           /\ Before(RangeOf(batch'[b]), RangeOf(wire'[b]), {})
<1> USE DEF TypeOK
<1>1. PICK n \in 1..MaxBatch :
         /\ n <= Len(wire[b])
         /\ batch' = [batch EXCEPT ![b] = SubSeq(wire[b], 1, n)]
         /\ wire' = [wire EXCEPT ![b] = SubSeq(wire[b], n + 1, Len(wire[b]))]
  BY DEF Report
<1>2. wire[b] \in Seq(Records) /\ n \in 0..Len(wire[b])
  BY <1>1
<1>3. /\ batch' = [batch EXCEPT ![b] = Front(wire[b], n)]
      /\ wire' = [wire EXCEPT ![b] = Back(wire[b], n)]
  BY <1>1, <1>2, SubSeqs
<1>4. Front(wire[b], n) \in Seq(Records) /\ Back(wire[b], n) \in Seq(Records)
  BY <1>2, Cut
<1>5. /\ wire' \in [Keyboards -> Seq(Records)] /\ batch' \in [Keyboards -> Seq(Records)]
      /\ batch'[b] = Front(wire[b], n) /\ wire'[b] = Back(wire[b], n)
      /\ \A c \in Keyboards \ {b} : wire'[c] = wire[c] /\ batch'[c] = batch[c]
  BY <1>3, <1>4
<1>6. /\ RangeOf(wire[b]) = RangeOf(batch'[b]) \cup RangeOf(wire'[b])
      /\ InOrder(batch'[b], {}) /\ InOrder(wire'[b], {})
      /\ Before(RangeOf(batch'[b]), RangeOf(wire'[b]), {})
  <2>1. InOrder(wire[b], {})
    BY DEF WireInv
  <2> QED
    BY <1>2, <1>5, <2>1, Cut
<1> QED
  BY <1>2, <1>5, <1>6 DEF Report, classVars, queueVars, doomVars, launchVars

(* The batch goes to the end of the ring; what there is no room for is lost.  *)
LEMMA MirrorEffect ==
    ASSUME TypeOK, WireInv, RingInv, NEW b \in Keyboards, Mirror(b)
    PROVE  /\ UNCHANGED <<held, wire, press, produced, batch, ccs, refusals, again, room,
                          result, game, keyboard_available, down, dispatched, stale>>
           /\ callback[b] = "queue" /\ callback' = [callback EXCEPT ![b] = "forward"]
           /\ queue' \in Seq(Records) /\ Len(queue') <= RingCapacity
           /\ InOrder(queue', again)
           /\ RangeOf(queue') \subseteq RangeOf(queue) \cup RangeOf(batch[b])
           /\ ~lost' => ~lost /\ queue' = queue \o batch[b]
<1> USE DEF TypeOK
<1> DEFINE s == queue \o batch[b]
           n == IF Len(s) > RingCapacity THEN Len(s) - RingCapacity ELSE 0
<1>1. /\ callback[b] = "queue" /\ callback' = [callback EXCEPT ![b] = "forward"]
      /\ queue' = Queue!Newest(s) /\ lost' = (lost \/ Len(queue) + Len(batch[b]) > RingCapacity)
      /\ UNCHANGED <<held, wire, press, produced, batch, ccs, refusals, again, room,
                     result, game, keyboard_available, down, dispatched, stale>>
  BY DEF Mirror, Queue!EnqueueBatch, keyboardVars, classVars, doomVars, launchVars
<1>2. queue \in Seq(Records) /\ batch[b] \in Seq(Records)
  OBVIOUS
<1>3. /\ InOrder(queue, again) /\ InOrder(batch[b], {})
      /\ Before(RangeOf(queue), RangeOf(batch[b]), again)
  BY <1>1 DEF RingInv, WireInv, Mirrored, Unmirrored, Before
<1>4. InOrder(batch[b], again)
  BY <1>3, OrderGrows
<1>5. /\ s \in Seq(Records) /\ Len(s) = Len(queue) + Len(batch[b]) /\ InOrder(s, again)
      /\ RangeOf(s) = RangeOf(queue) \cup RangeOf(batch[b])
  BY <1>2, <1>3, <1>4, Join
<1> HIDE DEF s
<1>6. n \in 0..Len(s) /\ queue' = Back(s, n) /\ Len(s) - n <= RingCapacity
  BY <1>1, <1>5, NewestValue
<1>7. ~lost' => ~lost /\ n = 0
  BY <1>1, <1>5, PathAssumption
<1> HIDE DEF n
<1>8. /\ queue' \in Seq(Records) /\ Len(queue') <= RingCapacity /\ InOrder(queue', again)
      /\ RangeOf(queue') \subseteq RangeOf(s)
  <2>1. /\ Back(s, n) \in Seq(Records) /\ Len(Back(s, n)) = Len(s) - n
        /\ RangeOf(s) = RangeOf(Front(s, n)) \cup RangeOf(Back(s, n))
    BY <1>5, <1>6, Cut
  <2>2. InOrder(Back(s, n), again)
    BY <1>5, <1>6, Cut, Zenon
  <2> QED
    BY <1>6, <2>1, <2>2
<1>9. ~lost' => ~lost /\ queue' = s
  BY <1>5, <1>6, <1>7, WholeBack
<1> QED
  BY <1>1, <1>5, <1>8, <1>9 DEF s

(* kbdclass, and ccs behind it, takes the front of the batch; the port driver  *)
(* keeps the back.                                                           *)
LEMMA ForwardEffect ==
    ASSUME TypeOK, WireInv, NEW b \in Keyboards, Forward(b)
    PROVE  /\ UNCHANGED <<held, press, produced, queue, room, result, game,
                          keyboard_available, down, dispatched, stale, lost>>
           /\ callback[b] = "forward" /\ callback' = [callback EXCEPT ![b] = "idle"]
           /\ batch' \in [Keyboards -> Seq(Records)] /\ wire' \in [Keyboards -> Seq(Records)]
           /\ batch'[b] = <<>>
           /\ \A c \in Keyboards \ {b} : batch'[c] = batch[c] /\ wire'[c] = wire[c]
           /\ ccs' \subseteq Records /\ again' \subseteq Records
           /\ refusals' \in 0..MaxRefusals
           /\ \E n \in 0..Len(batch[b]) :
                 /\ ccs' = ccs \cup RangeOf(Front(batch[b], n))
                 /\ wire'[b] = Back(batch[b], n) \o wire[b]
                 /\ again' = again \cup RangeOf(Back(batch[b], n))
<1> USE DEF TypeOK
<1>1. PICK n \in 0..Len(batch[b]) :
         LET rest == SubSeq(batch[b], n + 1, Len(batch[b])) IN
         /\ rest = <<>> \/ refusals < MaxRefusals
         /\ ccs' = ccs \cup RangeOf(SubSeq(batch[b], 1, n))
         /\ wire' = [wire EXCEPT ![b] = rest \o @]
         /\ again' = again \cup RangeOf(rest)
         /\ refusals' = IF rest = <<>> THEN refusals ELSE refusals + 1
  BY DEF Forward
<1> DEFINE f == Front(batch[b], n)
           g == Back(batch[b], n)
<1>2. batch[b] \in Seq(Records) /\ wire[b] \in Seq(Records) /\ n \in 0..Len(batch[b])
  BY <1>1
<1>3. SubSeq(batch[b], 1, n) = f /\ SubSeq(batch[b], n + 1, Len(batch[b])) = g
  BY <1>2, SubSeqs
<1>4. f \in Seq(Records) /\ g \in Seq(Records)
  BY <1>2, Cut
<1> HIDE DEF f, g
<1>5. /\ g = <<>> \/ refusals < MaxRefusals
      /\ ccs' = ccs \cup RangeOf(f) /\ again' = again \cup RangeOf(g)
      /\ wire' = [wire EXCEPT ![b] = g \o wire[b]]
      /\ refusals' = IF g = <<>> THEN refusals ELSE refusals + 1
  BY <1>1, <1>3
<1>6. g \o wire[b] \in Seq(Records)
  BY <1>2, <1>4, Join
<1>7. /\ wire' \in [Keyboards -> Seq(Records)] /\ wire'[b] = g \o wire[b]
      /\ \A c \in Keyboards \ {b} : wire'[c] = wire[c]
  BY <1>5, <1>6
<1>8. /\ batch' \in [Keyboards -> Seq(Records)] /\ batch'[b] = <<>>
      /\ \A c \in Keyboards \ {b} : batch'[c] = batch[c]
  BY Empty DEF Forward
<1>9. RangeOf(f) \subseteq Records /\ RangeOf(g) \subseteq Records
  BY <1>4 DEF RangeOf
<1>10. refusals' \in 0..MaxRefusals
  BY <1>5, PathAssumption
<1>11. /\ UNCHANGED <<held, press, produced, queue, room, result, game,
                      keyboard_available, down, dispatched, stale, lost>>
       /\ callback[b] = "forward" /\ callback' = [callback EXCEPT ![b] = "idle"]
  BY DEF Forward, queueVars, doomVars, launchVars
<1> QED
  BY <1>5, <1>7, <1>8, <1>9, <1>10, <1>11 DEF f, g

(* A poll takes the first records of the ring.                               *)
LEMMA DrainEffect ==
    ASSUME TypeOK, RingInv, Drain
    PROVE  /\ UNCHANGED <<held, wire, press, produced, callback, batch, ccs, refusals, again,
                          keyboard_available, down, dispatched, stale, lost>>
           /\ game = "drain" /\ game' = "dispatch"
           /\ room' \in [{Doom} -> 0..PollRecords]
           /\ queue' \in Seq(Records) /\ Len(queue') <= RingCapacity
           /\ InOrder(queue', again)
           /\ result' \in [{Doom} -> Seq(Records)] /\ Len(result'[Doom]) <= PollRecords
           /\ InOrder(result'[Doom], again)
           /\ \E n \in 0..Len(queue) :
                 result'[Doom] = Front(queue, n) /\ queue' = Back(queue, n)
           /\ RangeOf(queue) = RangeOf(result'[Doom]) \cup RangeOf(queue')
           /\ Before(RangeOf(result'[Doom]), RangeOf(queue'), again)
<1> USE PathAssumption DEF TypeOK
<1> DEFINE n == IF room[Doom] < Len(queue) THEN room[Doom] ELSE Len(queue)
<1>1. /\ game = "drain" /\ game' = "dispatch"
      /\ result' = [result EXCEPT ![Doom] = Front(queue, n)] /\ queue' = Back(queue, n)
      /\ room' = [room EXCEPT ![Doom] = 0]
      /\ UNCHANGED <<held, wire, press, produced, callback, batch, ccs, refusals, again,
                     keyboard_available, down, dispatched, stale, lost>>
  BY DEF Drain, Queue!Answer, Queue!After, Front, Back, keyboardVars, filterVars,
     classVars, doomVars, launchVars
<1>2. queue \in Seq(Records) /\ room[Doom] \in 0..PollRecords /\ InOrder(queue, again)
  BY DEF RingInv
<1>3. n \in 0..Len(queue) /\ n <= PollRecords
  BY <1>2
<1> HIDE DEF n
<1>4. /\ Front(queue, n) \in Seq(Records) /\ Len(Front(queue, n)) = n
      /\ Back(queue, n) \in Seq(Records) /\ Len(Back(queue, n)) = Len(queue) - n
      /\ RangeOf(queue) = RangeOf(Front(queue, n)) \cup RangeOf(Back(queue, n))
      /\ InOrder(Front(queue, n), again) /\ InOrder(Back(queue, n), again)
      /\ Before(RangeOf(Front(queue, n)), RangeOf(Back(queue, n)), again)
  BY <1>2, <1>3, Cut
<1>5. result'[Doom] = Front(queue, n) /\ result' \in [{Doom} -> Seq(Records)]
  BY <1>1, <1>4
<1>6. Len(queue') <= RingCapacity
  BY <1>1, <1>2, <1>3, <1>4
<1>7. room' \in [{Doom} -> 0..PollRecords]
  BY <1>1
<1> QED
  BY <1>1, <1>3, <1>4, <1>5, <1>6, <1>7

(* The oldest of the records that were returned goes to the engine.           *)
LEMMA DispatchEffect ==
    ASSUME TypeOK, RingInv, Dispatch
    PROVE  /\ UNCHANGED <<held, wire, press, produced, callback, batch, ccs, refusals, again,
                          queue, room, game, keyboard_available, stale, lost>>
           /\ game = "dispatch"
           /\ result' \in [{Doom} -> Seq(Records)] /\ Len(result'[Doom]) <= PollRecords
           /\ InOrder(result'[Doom], again)
           /\ dispatched' \in Seq(Records)
           /\ \E r \in Records :
                 /\ RangeOf(result[Doom]) = {r} \cup RangeOf(result'[Doom])
                 /\ result[Doom] = <<r>> \o result'[Doom]
                 /\ Before({r}, RangeOf(result'[Doom]), again)
                 /\ LET d == scan_code_to_doom(r.key)
                    IN  \/ d = UNKNOWN /\ dispatched' = dispatched /\ down' = down
                        \/ /\ d # UNKNOWN /\ dispatched' = Append(dispatched, r)
                           /\ down' = IF r.brk THEN down \ {d} ELSE down \cup {d}
                 /\ RangeOf(dispatched') \subseteq RangeOf(dispatched) \cup {r}
<1> USE DEF TypeOK
<1> DEFINE q == result[Doom]
           r == Head(q)
<1>1. q \in Seq(Records) /\ q # <<>> /\ InOrder(q, again) /\ Len(q) <= PollRecords
  BY DEF Dispatch, RingInv
<1>2. result' = [result EXCEPT ![Doom] = Tail(q)]
  BY DEF Dispatch
<1>3. LET d == scan_code_to_doom(r.key)
      IN  \/ d = UNKNOWN /\ dispatched' = dispatched /\ down' = down
          \/ /\ d # UNKNOWN /\ dispatched' = Append(dispatched, r)
             /\ down' = IF r.brk THEN down \ {d} ELSE down \cup {d}
  BY DEF Dispatch
<1>4. /\ game = "dispatch"
      /\ UNCHANGED <<held, wire, press, produced, callback, batch, ccs, refusals, again,
                     queue, room, game, keyboard_available, stale, lost>>
  BY DEF Dispatch, keyboardVars, filterVars, classVars, launchVars
<1>5. dispatched \in Seq(Records)
  OBVIOUS
<1> HIDE DEF q
<1>6. /\ 1 \in 0..Len(q) /\ r \in Records /\ Front(q, 1) = <<r>> /\ Tail(q) = Back(q, 1)
      /\ q = <<r>> \o Tail(q)
  BY <1>1, HeadTail
<1> HIDE DEF r, TypeOK
<1>7. /\ Tail(q) \in Seq(Records) /\ Len(Tail(q)) <= PollRecords
      /\ RangeOf(q) = {r} \cup RangeOf(Tail(q)) /\ InOrder(Tail(q), again)
      /\ Before({r}, RangeOf(Tail(q)), again)
  <2>1. Len(Tail(q)) = Len(q) - 1 /\ Tail(q) \in Seq(Records)
    BY <1>1, <1>6, Cut
  <2>2. Len(Tail(q)) <= PollRecords
    BY <1>1, <2>1, PathAssumption
  <2>3. /\ RangeOf(q) = RangeOf(Front(q, 1)) \cup RangeOf(Back(q, 1))
        /\ InOrder(Back(q, 1), again)
        /\ Before(RangeOf(Front(q, 1)), RangeOf(Back(q, 1)), again)
    BY <1>1, <1>6, Cut
  <2>4. RangeOf(<<r>>) = {r}
    BY <1>6, Single
  <2> QED
    BY <1>6, <2>1, <2>2, <2>3, <2>4
<1>8. result'[Doom] = Tail(q) /\ result' \in [{Doom} -> Seq(Records)]
  BY <1>2, <1>7 DEF TypeOK
<1>9. /\ Append(dispatched, r) \in Seq(Records)
      /\ RangeOf(Append(dispatched, r)) = RangeOf(dispatched) \cup {r}
  <2>1. <<r>> \in Seq(Records) /\ RangeOf(<<r>>) = {r}
    BY <1>6, Single
  <2>2. Append(dispatched, r) = dispatched \o <<r>>
    BY <1>5, <1>6, Append1
  <2>3. /\ dispatched \o <<r>> \in Seq(Records)
        /\ RangeOf(dispatched \o <<r>>) = RangeOf(dispatched) \cup RangeOf(<<r>>)
    BY <1>5, <2>1, Join
  <2> QED
    BY <2>1, <2>2, <2>3
<1>10. /\ dispatched' \in Seq(Records)
       /\ RangeOf(dispatched') \subseteq RangeOf(dispatched) \cup {r}
  BY <1>3, <1>5, <1>9
<1> QED
  BY <1>3, <1>4, <1>6, <1>7, <1>8, <1>10 DEF q

(* The quiet parts of a frame.                                               *)
LEMMA QuietEffect ==
    ASSUME TypeOK, QuietStep
    PROVE  /\ UNCHANGED <<held, wire, press, produced, callback, batch, ccs, refusals, again,
                          queue, result, down, dispatched, stale, lost>>
           /\ game' \in {"absent", "poll", "drain", "update", "present"}
           /\ game = "dispatch" => result[Doom] = <<>>
           /\ Running' => Running
           /\ keyboard_available' => keyboard_available
           /\ room' \in [{Doom} -> 0..PollRecords]
<1> USE PathAssumption DEF TypeOK, Running, keyboardVars, filterVars, classVars,
        queueVars, doomVars, launchVars, Frame
<1>1. CASE Exit
  BY <1>1 DEF Exit
<1>2. CASE PollKeyboard
  BY <1>2 DEF PollKeyboard, Queue!AskFor
<1>3. CASE SkipKeyboard
  BY <1>3 DEF SkipKeyboard
<1>4. CASE PollFails
  BY <1>4 DEF PollFails
<1>5. CASE Dispatched
  BY <1>5 DEF Dispatched
<1>6. CASE Update
  BY <1>6 DEF Update
<1>7. CASE Present
  BY <1>7 DEF Present
<1> QED
  BY <1>1, <1>2, <1>3, <1>4, <1>5, <1>6, <1>7 DEF QuietStep

(* Whatever is on the way, and whatever has arrived, is a record.             *)
LEMMA WayTypes ==
    ASSUME TypeOK
    PROVE  /\ RangeOf(queue) \subseteq Records /\ RangeOf(result[Doom]) \subseteq Records
           /\ Mirrored \subseteq Records /\ ccs \subseteq Records
           /\ RangeOf(dispatched) \subseteq Records
           /\ \A b \in Keyboards :
                 /\ RangeOf(wire[b]) \subseteq Records /\ RangeOf(batch[b]) \subseteq Records
                 /\ Unmirrored(b) \subseteq Records
<1>1. ASSUME NEW s \in Seq(Records) PROVE RangeOf(s) \subseteq Records
  BY DEF RangeOf
<1>2. /\ RangeOf(queue) \subseteq Records /\ RangeOf(result[Doom]) \subseteq Records
      /\ RangeOf(dispatched) \subseteq Records /\ ccs \subseteq Records
      /\ \A b \in Keyboards :
            RangeOf(wire[b]) \subseteq Records /\ RangeOf(batch[b]) \subseteq Records
  BY <1>1 DEF TypeOK
<1> QED
  BY <1>2 DEF Mirrored, Unmirrored

(* What is on the way is not mirrored, or in the ring, or returned.           *)
LEMMA WayMembers == OnTheWay = Coming \cup RangeOf(queue) \cup RangeOf(result[Doom])
<1> DEFINE W == {RangeOf(wire[b]) : b \in Keyboards}
           B == {RangeOf(batch[b]) : b \in {x \in Keyboards : callback[x] = "queue"}}
<1>1. \A r : r \in UNION W <=> \E b \in Keyboards : r \in RangeOf(wire[b])
  OBVIOUS
<1>2. \A r : r \in UNION B <=>
                 \E b \in Keyboards : callback[b] = "queue" /\ r \in RangeOf(batch[b])
  OBVIOUS
<1>3. OnTheWay = UNION (W \cup B \cup {RangeOf(queue), RangeOf(result[Doom])})
  BY DEF OnTheWay
<1> HIDE DEF W, B
<1>4. ASSUME NEW r
      PROVE  r \in OnTheWay <=> \/ r \in UNION W \/ r \in UNION B
                                \/ r \in RangeOf(queue) \cup RangeOf(result[Doom])
  BY <1>3
<1>5. ASSUME NEW r PROVE r \in UNION W \/ r \in UNION B <=> r \in Coming
  <2>1. r \in Coming <=> \E b \in Keyboards : r \in Unmirrored(b)
    BY DEF Coming
  <2>2. \A b \in Keyboards :
           r \in Unmirrored(b) <=>
              r \in RangeOf(wire[b]) \/ (callback[b] = "queue" /\ r \in RangeOf(batch[b]))
    BY DEF Unmirrored
  <2> QED
    BY <1>1, <1>2, <2>1, <2>2
<1> QED
  BY <1>4, <1>5

(* Nothing changes before the ring, and the ring and doom get nothing new.    *)
LEMMA WireKept ==
    ASSUME WireInv, UNCHANGED <<wire, callback, batch, ccs, again, produced>>,
           Mirrored' \subseteq Mirrored
    PROVE  WireInv'
<1>1. \A b \in Keyboards : Unmirrored(b)' = Unmirrored(b)
  BY DEF Unmirrored
<1> QED
  BY <1>1 DEF WireInv, Before

-----------------------------------------------------------------------------
(* Initially, and step by step.                                            *)

(* No keyboard has sent anything, and doom does not run.                     *)
LEMMA InitInv == Init => IInv
<1> SUFFICES ASSUME Init PROVE IInv
  OBVIOUS
<1> USE PathAssumption DEF Init, Queue!Init
<1>1. /\ wire = [b \in Keyboards |-> <<>>] /\ batch = [b \in Keyboards |-> <<>>]
      /\ callback = [b \in Keyboards |-> "idle"] /\ game = "absent"
      /\ queue = <<>> /\ result = [c \in {Doom} |-> <<>>] /\ room = [c \in {Doom} |-> 0]
      /\ ccs = {} /\ again = {} /\ stale = {} /\ dispatched = <<>> /\ down = {}
  OBVIOUS
<1>2. TypeOK
  BY Empty DEF TypeOK
<1>3. GameInv /\ StaleInv
  BY <1>1 DEF GameInv, StaleInv, Running
<1>4. Mirrored = {} /\ \A b \in Keyboards : Unmirrored(b) = {}
  BY <1>1, Empty DEF Mirrored, Unmirrored
<1>5. WireInv /\ RingInv
  BY <1>1, <1>4, Empty DEF WireInv, RingInv, Before
<1>6. ReleaseInv /\ StuckInv
  BY <1>1, Empty DEF ReleaseInv, StuckInv, Running
<1> QED
  BY <1>2, <1>3, <1>5, <1>6 DEF IInv

(* Every variable keeps its type.                                            *)
LEMMA TypeStep == IInv /\ [Next]_vars => TypeOK'
<1> SUFFICES ASSUME IInv, [Next]_vars PROVE TypeOK'
  OBVIOUS
<1> USE PathAssumption DEF TypeOK
<1>0. TypeOK /\ WireInv /\ RingInv
  BY DEF IInv
<1>1. ASSUME NEW b \in Keyboards, NEW key \in Keys, KeyStep(b, key) PROVE TypeOK'
  BY <1>0, <1>1, KeyEffect
<1>2. ASSUME NEW b \in Keyboards, Report(b) PROVE TypeOK'
  <2>1. /\ UNCHANGED <<held, press, produced, ccs, refusals, again, queue, room, result, game,
                       keyboard_available, down, dispatched>>
        /\ wire' \in [Keyboards -> Seq(Records)] /\ batch' \in [Keyboards -> Seq(Records)]
        /\ callback' = [callback EXCEPT ![b] = "queue"]
    BY <1>0, <1>2, ReportEffect
  <2>2. callback' \in [Keyboards -> {"idle", "queue", "forward"}]
    BY <1>0, <2>1
  <2> QED
    BY <1>0, <2>1, <2>2
<1>3. ASSUME NEW b \in Keyboards, Mirror(b) PROVE TypeOK'
  BY <1>0, <1>3, MirrorEffect
<1>4. ASSUME NEW b \in Keyboards, Forward(b) PROVE TypeOK'
  <2>1. /\ UNCHANGED <<held, press, produced, queue, room, result, game,
                       keyboard_available, down, dispatched>>
        /\ callback' = [callback EXCEPT ![b] = "idle"]
        /\ batch' \in [Keyboards -> Seq(Records)] /\ wire' \in [Keyboards -> Seq(Records)]
        /\ ccs' \subseteq Records /\ again' \subseteq Records /\ refusals' \in 0..MaxRefusals
    BY <1>0, <1>4, ForwardEffect
  <2>2. callback' \in [Keyboards -> {"idle", "queue", "forward"}]
    BY <1>0, <2>1
  <2> QED
    BY <1>0, <2>1, <2>2
<1>5. CASE Launch
  BY <1>0, <1>5, Empty DEF Launch, keyboardVars, filterVars, classVars, queueVars
<1>6. CASE OpenDisplay
  BY <1>0, <1>6, Empty DEF OpenDisplay, Queue!Open, keyboardVars, filterVars, classVars, doomVars
<1>7. CASE OtherOpen
  BY <1>0, <1>7, Empty DEF OtherOpen, Queue!Open, keyboardVars, filterVars, classVars,
     doomVars, launchVars
<1>8. CASE Drain
  BY <1>0, <1>8, DrainEffect
<1>9. CASE Dispatch
  BY <1>0, <1>9, DispatchEffect
<1>10. CASE QuietStep
  BY <1>0, <1>10, QuietEffect
<1>11. CASE UNCHANGED vars
  BY <1>0, <1>11 DEF vars, keyboardVars, filterVars, classVars, queueVars, doomVars,
     launchVars
<1> QED
  BY <1>1, <1>2, <1>3, <1>4, <1>5, <1>6, <1>7, <1>8, <1>9, <1>10, <1>11 DEF Next,
     KeyStep, QuietStep, FilterStep, GameStep

(* Only the answer of a poll brings records to dispatch.                     *)
LEMMA GameInvStep == IInv /\ [Next]_vars => GameInv'
<1> SUFFICES ASSUME IInv, [Next]_vars PROVE GameInv'
  OBVIOUS
<1> USE DEF GameInv
<1>0. TypeOK /\ WireInv /\ RingInv /\ GameInv
  BY DEF IInv
<1>1. ASSUME NEW b \in Keyboards, NEW key \in Keys, KeyStep(b, key) PROVE GameInv'
  BY <1>0, <1>1, KeyEffect
<1>2. ASSUME NEW b \in Keyboards, Report(b) PROVE GameInv'
  BY <1>0, <1>2, ReportEffect
<1>3. ASSUME NEW b \in Keyboards, Mirror(b) PROVE GameInv'
  BY <1>0, <1>3, MirrorEffect
<1>4. ASSUME NEW b \in Keyboards, Forward(b) PROVE GameInv'
  BY <1>0, <1>4, ForwardEffect
<1>5. CASE Launch
  BY <1>0, <1>5, Empty DEF Launch, keyboardVars, filterVars, classVars, queueVars
<1>6. CASE OpenDisplay
  BY <1>0, <1>6, Empty DEF OpenDisplay, Queue!Open, keyboardVars, filterVars, classVars, doomVars
<1>7. CASE OtherOpen
  BY <1>0, <1>7, Empty DEF OtherOpen, Queue!Open, keyboardVars, filterVars, classVars,
     doomVars, launchVars
<1>8. CASE Drain
  BY <1>0, <1>8, DrainEffect
<1>9. CASE Dispatch
  BY <1>0, <1>9, DispatchEffect
<1>10. CASE QuietStep
  BY <1>0, <1>10, QuietEffect
<1>11. CASE UNCHANGED vars
  BY <1>0, <1>11 DEF vars, keyboardVars, filterVars, classVars, queueVars, doomVars,
     launchVars
<1> QED
  BY <1>1, <1>2, <1>3, <1>4, <1>5, <1>6, <1>7, <1>8, <1>9, <1>10, <1>11 DEF Next,
     KeyStep, QuietStep, FilterStep, GameStep

(* What is not mirrored yet keeps its order.                                 *)
LEMMA WireStep == IInv /\ [Next]_vars => WireInv'
<1> SUFFICES ASSUME IInv, [Next]_vars PROVE WireInv'
  OBVIOUS
<1>0. TypeOK /\ WireInv /\ RingInv /\ GameInv
  BY DEF IInv
<1>1. ASSUME NEW b \in Keyboards, NEW key \in Keys, KeyStep(b, key) PROVE WireInv'
  <2>1. UNCHANGED <<callback, batch, ccs, again, queue, result, dispatched>>
    BY <1>0, <1>1, KeyEffect
  <2>2. PICK r \in Records :
           /\ r.n = produced + 1 /\ r.kbd = b
           /\ RangeOf(wire'[b]) = RangeOf(wire[b]) \cup {r} /\ InOrder(wire'[b], {})
    BY <1>0, <1>1, KeyEffect
  <2>3. /\ produced' = produced + 1 /\ produced \in Nat
        /\ \A c \in Keyboards \ {b} : wire'[c] = wire[c]
    BY <1>0, <1>1, KeyEffect DEF TypeOK
  <2>4. Mirrored' = Mirrored
    BY <2>1 DEF Mirrored
  <2>5. ASSUME NEW t \in Mirrored \cup ccs \cup RangeOf(batch[b]) PROVE t.n < r.n
    <3>1. t \in Records /\ t.n <= produced
      BY <1>0, WayTypes DEF WireInv, RingInv
    <3> QED
      BY <2>2, <2>3, <3>1, RecordFields
  <2> SUFFICES ASSUME NEW c \in Keyboards
               PROVE  /\ InOrder(wire'[c], {}) /\ InOrder(batch'[c], {})
                      /\ \A t \in RangeOf(wire'[c]) \cup RangeOf(batch'[c]) :
                            t.kbd = c /\ t.n <= produced'
                      /\ Before(RangeOf(batch'[c]), RangeOf(wire'[c]), {})
                      /\ Before(ccs', RangeOf(batch'[c]) \cup RangeOf(wire'[c]), {})
                      /\ Before(Mirrored', Unmirrored(c)', again')
    BY DEF WireInv
  <2>6. \A t \in RangeOf(wire[c]) \cup RangeOf(batch[c]) : t.kbd = c /\ t.n <= produced'
    <3> SUFFICES ASSUME NEW t \in RangeOf(wire[c]) \cup RangeOf(batch[c])
                 PROVE  t.kbd = c /\ t.n <= produced'
      OBVIOUS
    <3>1. t \in Records /\ t.kbd = c /\ t.n <= produced
      BY <1>0, WayTypes DEF WireInv
    <3> QED
      BY <2>3, <3>1, RecordFields
  <2>7. CASE c # b
    <3>1. wire'[c] = wire[c] /\ Unmirrored(c)' = Unmirrored(c)
      BY <2>1, <2>3, <2>7 DEF Unmirrored
    <3> QED
      BY <1>0, <2>1, <2>4, <2>6, <3>1 DEF WireInv
  <2>8. CASE c = b
    <3>1. Unmirrored(b)' = Unmirrored(b) \cup {r}
      BY <2>1, <2>2 DEF Unmirrored
    <3>2. r.n <= produced'
      BY <2>2, <2>3
    <3> QED
      BY <1>0, <2>1, <2>2, <2>4, <2>5, <2>6, <2>8, <3>1, <3>2 DEF WireInv, Before
  <2> QED
    BY <2>7, <2>8
<1>2. ASSUME NEW b \in Keyboards, Report(b) PROVE WireInv'
  <2>1. /\ UNCHANGED <<ccs, again, produced, queue, result, dispatched>>
        /\ callback[b] = "idle" /\ callback'[b] = "queue"
        /\ \A c \in Keyboards \ {b} :
              wire'[c] = wire[c] /\ batch'[c] = batch[c] /\ callback'[c] = callback[c]
    BY <1>0, <1>2, ReportEffect DEF TypeOK
  <2>2. /\ RangeOf(wire[b]) = RangeOf(batch'[b]) \cup RangeOf(wire'[b])
        /\ InOrder(batch'[b], {}) /\ InOrder(wire'[b], {})
        /\ Before(RangeOf(batch'[b]), RangeOf(wire'[b]), {})
    BY <1>0, <1>2, ReportEffect
  <2>3. Mirrored' = Mirrored
    BY <2>1 DEF Mirrored
  <2> SUFFICES ASSUME NEW c \in Keyboards
               PROVE  /\ InOrder(wire'[c], {}) /\ InOrder(batch'[c], {})
                      /\ \A t \in RangeOf(wire'[c]) \cup RangeOf(batch'[c]) :
                            t.kbd = c /\ t.n <= produced'
                      /\ Before(RangeOf(batch'[c]), RangeOf(wire'[c]), {})
                      /\ Before(ccs', RangeOf(batch'[c]) \cup RangeOf(wire'[c]), {})
                      /\ Before(Mirrored', Unmirrored(c)', again')
    BY DEF WireInv
  <2>4. CASE c # b
    <3>1. Unmirrored(c)' = Unmirrored(c)
      BY <2>1, <2>4 DEF Unmirrored
    <3> QED
      BY <1>0, <2>1, <2>3, <2>4, <3>1 DEF WireInv
  <2>5. CASE c = b
    <3>1. Unmirrored(b)' = RangeOf(wire[b]) /\ Unmirrored(b) = RangeOf(wire[b])
      BY <2>1, <2>2 DEF Unmirrored
    <3> QED
      BY <1>0, <2>1, <2>2, <2>3, <2>5, <3>1 DEF WireInv, Before
  <2> QED
    BY <2>4, <2>5
<1>3. ASSUME NEW b \in Keyboards, Mirror(b) PROVE WireInv'
  <2>1. /\ UNCHANGED <<wire, batch, ccs, again, produced, result, dispatched>>
        /\ callback[b] = "queue" /\ callback'[b] = "forward"
        /\ \A c \in Keyboards \ {b} : callback'[c] = callback[c]
        /\ RangeOf(queue') \subseteq RangeOf(queue) \cup RangeOf(batch[b])
    BY <1>0, <1>3, MirrorEffect DEF TypeOK
  <2>2. Mirrored' \subseteq Mirrored \cup RangeOf(batch[b])
    BY <2>1 DEF Mirrored
  <2> SUFFICES ASSUME NEW c \in Keyboards PROVE Before(Mirrored', Unmirrored(c)', again)
    BY <1>0, <2>1 DEF WireInv
  <2>3. CASE c # b
    <3>1. Unmirrored(c)' = Unmirrored(c)
      BY <2>1, <2>3 DEF Unmirrored
    <3>2. /\ \A t \in Unmirrored(c) : t.kbd = c
          /\ \A t \in RangeOf(batch[b]) : t.kbd = b
      BY <1>0 DEF WireInv, Unmirrored
    <3> QED
      BY <1>0, <2>2, <2>3, <3>1, <3>2 DEF WireInv, Before
  <2>4. CASE c = b
    <3>1. Unmirrored(b)' = RangeOf(wire[b]) /\ RangeOf(wire[b]) \subseteq Unmirrored(b)
      BY <2>1 DEF Unmirrored
    <3> QED
      BY <1>0, <2>2, <2>4, <3>1 DEF WireInv, Before
  <2> QED
    BY <2>3, <2>4
<1>4. ASSUME NEW b \in Keyboards, Forward(b) PROVE WireInv'
  <2>1. /\ UNCHANGED <<produced, queue, result, dispatched>>
        /\ callback[b] = "forward" /\ callback'[b] = "idle"
        /\ \A c \in Keyboards \ {b} :
              batch'[c] = batch[c] /\ wire'[c] = wire[c] /\ callback'[c] = callback[c]
        /\ batch'[b] = <<>>
    BY <1>0, <1>4, ForwardEffect DEF TypeOK
  <2> DEFINE f(n) == Front(batch[b], n)
             g(n) == Back(batch[b], n)
  <2>2. PICK n \in 0..Len(batch[b]) :
           /\ ccs' = ccs \cup RangeOf(f(n)) /\ wire'[b] = g(n) \o wire[b]
           /\ again' = again \cup RangeOf(g(n))
    BY <1>0, <1>4, ForwardEffect
  <2>3. batch[b] \in Seq(Records) /\ wire[b] \in Seq(Records)
    BY <1>0 DEF TypeOK
  <2>4. /\ g(n) \in Seq(Records) /\ RangeOf(batch[b]) = RangeOf(f(n)) \cup RangeOf(g(n))
        /\ InOrder(g(n), {}) /\ Before(RangeOf(f(n)), RangeOf(g(n)), {})
    BY <1>0, <2>3, Cut DEF WireInv
  <2> HIDE DEF f, g
  <2>5. /\ Before(RangeOf(f(n)), RangeOf(wire[b]), {})
        /\ Before(RangeOf(g(n)), RangeOf(wire[b]), {})
    BY <1>0, <2>4 DEF WireInv, Before
  <2>6. InOrder(wire'[b], {}) /\ RangeOf(wire'[b]) = RangeOf(g(n)) \cup RangeOf(wire[b])
    <3>1. InOrder(wire[b], {})
      BY <1>0 DEF WireInv
    <3> QED
      BY <2>2, <2>3, <2>4, <2>5, <3>1, Join
  <2>7. Mirrored' = Mirrored
    BY <2>1 DEF Mirrored
  <2>8. InOrder(batch'[b], {}) /\ RangeOf(batch'[b]) = {}
    BY <2>1, Empty
  <2> SUFFICES ASSUME NEW c \in Keyboards
               PROVE  /\ InOrder(wire'[c], {}) /\ InOrder(batch'[c], {})
                      /\ \A t \in RangeOf(wire'[c]) \cup RangeOf(batch'[c]) :
                            t.kbd = c /\ t.n <= produced'
                      /\ Before(RangeOf(batch'[c]), RangeOf(wire'[c]), {})
                      /\ Before(ccs', RangeOf(batch'[c]) \cup RangeOf(wire'[c]), {})
                      /\ Before(Mirrored', Unmirrored(c)', again')
    BY DEF WireInv
  <2>9. CASE c # b
    <3>1. /\ \A t \in RangeOf(batch[c]) \cup RangeOf(wire[c]) : t.kbd = c
          /\ \A t \in RangeOf(f(n)) : t.kbd = b
      BY <1>0, <2>4 DEF WireInv
    <3>2. Before(ccs', RangeOf(batch[c]) \cup RangeOf(wire[c]), {})
      BY <1>0, <2>2, <2>9, <3>1 DEF WireInv, Before
    <3>3. Unmirrored(c)' = Unmirrored(c)
      BY <2>1, <2>9 DEF Unmirrored
    <3>4. Before(Mirrored', Unmirrored(c)', again')
      BY <1>0, <2>2, <2>7, <3>3 DEF WireInv, Before
    <3> QED
      BY <1>0, <2>1, <2>9, <3>2, <3>4 DEF WireInv
  <2>10. CASE c = b
    <3>1. \A t \in RangeOf(wire'[b]) \cup RangeOf(batch'[b]) : t.kbd = b /\ t.n <= produced'
      BY <1>0, <2>1, <2>4, <2>6, <2>8 DEF WireInv
    <3>2. /\ Before(RangeOf(batch'[b]), RangeOf(wire'[b]), {})
          /\ Before(ccs', RangeOf(batch'[b]) \cup RangeOf(wire'[b]), {})
      BY <1>0, <2>2, <2>4, <2>5, <2>6, <2>8 DEF WireInv, Before
    <3>3. Unmirrored(b)' = RangeOf(g(n)) \cup RangeOf(wire[b])
      BY <2>1, <2>6 DEF Unmirrored
    <3>4. RangeOf(wire[b]) \subseteq Unmirrored(b)
      BY DEF Unmirrored
    <3>5. Before(Mirrored', Unmirrored(b)', again')
      BY <1>0, <2>2, <2>7, <3>3, <3>4 DEF WireInv, Before
    <3> QED
      BY <2>6, <2>8, <2>10, <3>1, <3>2, <3>5
  <2> QED
    BY <2>9, <2>10
<1>5. CASE Launch
  <2>1. /\ UNCHANGED <<wire, callback, batch, ccs, again, produced, queue, result>>
        /\ RangeOf(dispatched') = {}
    BY <1>5, Empty DEF Launch, keyboardVars, filterVars, classVars, queueVars
  <2> QED
    BY <1>0, <2>1, WireKept DEF Mirrored
<1>6. CASE OpenDisplay
  <2>1. /\ UNCHANGED <<wire, callback, batch, ccs, again, produced, result, dispatched>>
        /\ RangeOf(queue') = {}
    BY <1>6, Empty DEF OpenDisplay, Queue!Open, keyboardVars, filterVars, classVars, doomVars
  <2> QED
    BY <1>0, <2>1, WireKept DEF Mirrored
<1>7. CASE OtherOpen
  <2>1. /\ UNCHANGED <<wire, callback, batch, ccs, again, produced, result, dispatched>>
        /\ RangeOf(queue') = {}
    BY <1>7, Empty DEF OtherOpen, Queue!Open, keyboardVars, filterVars, classVars, doomVars
  <2> QED
    BY <1>0, <2>1, WireKept DEF Mirrored
<1>8. CASE Drain
  <2>1. /\ UNCHANGED <<wire, callback, batch, ccs, again, produced, dispatched>>
        /\ RangeOf(queue) = RangeOf(result'[Doom]) \cup RangeOf(queue')
    BY <1>0, <1>8, DrainEffect
  <2> QED
    BY <1>0, <2>1, WireKept DEF Mirrored
<1>9. CASE Dispatch
  <2>1. UNCHANGED <<wire, callback, batch, ccs, again, produced, queue>>
    BY <1>0, <1>9, DispatchEffect
  <2>2. PICK r \in Records :
           /\ RangeOf(result[Doom]) = {r} \cup RangeOf(result'[Doom])
           /\ RangeOf(dispatched') \subseteq RangeOf(dispatched) \cup {r}
    BY <1>0, <1>9, DispatchEffect
  <2> QED
    BY <1>0, <2>1, <2>2, WireKept DEF Mirrored
<1>10. CASE QuietStep
  <2>1. UNCHANGED <<wire, callback, batch, ccs, again, produced, queue, result, dispatched>>
    BY <1>0, <1>10, QuietEffect
  <2> QED
    BY <1>0, <2>1, WireKept DEF Mirrored
<1>11. CASE UNCHANGED vars
  <2>1. UNCHANGED <<wire, callback, batch, ccs, again, produced, queue, result, dispatched>>
    BY <1>11 DEF vars, keyboardVars, filterVars, classVars, queueVars, doomVars
  <2> QED
    BY <1>0, <2>1, WireKept DEF Mirrored
<1> QED
  BY <1>1, <1>2, <1>3, <1>4, <1>5, <1>6, <1>7, <1>8, <1>9, <1>10, <1>11 DEF Next,
     KeyStep, QuietStep, FilterStep, GameStep

(* What is mirrored keeps its order.                                         *)
LEMMA RingStep == IInv /\ [Next]_vars => RingInv'
<1> SUFFICES ASSUME IInv, [Next]_vars PROVE RingInv'
  OBVIOUS
<1>0. TypeOK /\ WireInv /\ RingInv /\ GameInv
  BY DEF IInv
<1>1. ASSUME NEW b \in Keyboards, NEW key \in Keys, KeyStep(b, key) PROVE RingInv'
  <2>1. /\ UNCHANGED <<ccs, again, queue, result, dispatched>>
        /\ produced' = produced + 1 /\ produced \in Nat
    BY <1>0, <1>1, KeyEffect DEF TypeOK
  <2>2. \A t \in Mirrored \cup ccs : t.n <= produced'
    <3> SUFFICES ASSUME NEW t \in Mirrored \cup ccs PROVE t.n <= produced'
      OBVIOUS
    <3>1. t \in Records /\ t.n <= produced
      BY <1>0, WayTypes DEF RingInv
    <3> QED
      BY <2>1, <3>1, RecordFields
  <2> QED
    BY <1>0, <2>1, <2>2 DEF RingInv, Mirrored
<1>2. ASSUME NEW b \in Keyboards, Report(b) PROVE RingInv'
  <2>1. UNCHANGED <<ccs, again, produced, queue, result, dispatched>>
    BY <1>0, <1>2, ReportEffect
  <2> QED
    BY <1>0, <2>1 DEF RingInv, Mirrored
<1>3. ASSUME NEW b \in Keyboards, Mirror(b) PROVE RingInv'
  <2>1. /\ UNCHANGED <<ccs, again, produced, result, dispatched>> /\ InOrder(queue', again)
        /\ callback[b] = "queue"
        /\ RangeOf(queue') \subseteq RangeOf(queue) \cup RangeOf(batch[b])
    BY <1>0, <1>3, MirrorEffect
  <2>2. Mirrored' \subseteq Mirrored \cup RangeOf(batch[b])
    BY <2>1 DEF Mirrored
  <2>3. RangeOf(batch[b]) \subseteq Unmirrored(b)
    BY <2>1 DEF Unmirrored
  <2>4. /\ Before(Mirrored, RangeOf(batch[b]), again)
        /\ \A t \in RangeOf(batch[b]) : t.n <= produced
    BY <1>0, <2>3 DEF WireInv, Before
  <2>5. \A t \in Mirrored' \cup ccs' : t.n <= produced'
    BY <1>0, <2>1, <2>2, <2>4 DEF RingInv
  <2> QED
    BY <1>0, <2>1, <2>4, <2>5 DEF RingInv, Mirrored, Before
<1>4. ASSUME NEW b \in Keyboards, Forward(b) PROVE RingInv'
  <2>1. UNCHANGED <<produced, queue, result, dispatched>>
    BY <1>0, <1>4, ForwardEffect
  <2>2. PICK n \in 0..Len(batch[b]) :
           /\ ccs' = ccs \cup RangeOf(Front(batch[b], n))
           /\ again' = again \cup RangeOf(Back(batch[b], n))
    BY <1>0, <1>4, ForwardEffect
  <2>3. ccs' \subseteq ccs \cup RangeOf(batch[b]) /\ again \subseteq again'
    BY <1>0, <2>2, Cut DEF TypeOK
  <2>4. \A t \in RangeOf(batch[b]) : t.n <= produced
    BY <1>0 DEF WireInv
  <2>5. /\ InOrder(queue, again') /\ InOrder(result[Doom], again')
        /\ Before(RangeOf(result[Doom]), RangeOf(queue), again')
        /\ Before(RangeOf(dispatched), RangeOf(result[Doom]) \cup RangeOf(queue), again')
    BY <1>0, <2>3, OrderGrows, BeforeGrows DEF RingInv
  <2> QED
    BY <1>0, <2>1, <2>3, <2>4, <2>5 DEF RingInv, Mirrored
<1>5. CASE Launch
  <2>1. UNCHANGED <<ccs, again, produced, queue, result>> /\ RangeOf(dispatched') = {}
    BY <1>5, Empty DEF Launch, keyboardVars, filterVars, classVars, queueVars
  <2> QED
    BY <1>0, <2>1 DEF RingInv, Mirrored, Before
<1>6. CASE OpenDisplay
  <2>1. /\ UNCHANGED <<ccs, again, produced, result, dispatched>>
        /\ RangeOf(queue') = {} /\ InOrder(queue', again')
    BY <1>6, Empty DEF OpenDisplay, Queue!Open, keyboardVars, filterVars, classVars, doomVars
  <2> QED
    BY <1>0, <2>1 DEF RingInv, Mirrored, Before
<1>7. CASE OtherOpen
  <2>1. /\ UNCHANGED <<ccs, again, produced, result, dispatched>>
        /\ RangeOf(queue') = {} /\ InOrder(queue', again')
    BY <1>7, Empty DEF OtherOpen, Queue!Open, keyboardVars, filterVars, classVars, doomVars
  <2> QED
    BY <1>0, <2>1 DEF RingInv, Mirrored, Before
<1>8. CASE Drain
  <2>1. /\ UNCHANGED <<ccs, again, produced, dispatched>>
        /\ InOrder(queue', again) /\ InOrder(result'[Doom], again)
        /\ RangeOf(queue) = RangeOf(result'[Doom]) \cup RangeOf(queue')
        /\ Before(RangeOf(result'[Doom]), RangeOf(queue'), again)
    BY <1>0, <1>8, DrainEffect
  <2> QED
    BY <1>0, <2>1 DEF RingInv, Mirrored, Before
<1>9. CASE Dispatch
  <2>1. UNCHANGED <<ccs, again, produced, queue>> /\ InOrder(result'[Doom], again)
    BY <1>0, <1>9, DispatchEffect
  <2>2. PICK r \in Records :
           /\ RangeOf(result[Doom]) = {r} \cup RangeOf(result'[Doom])
           /\ Before({r}, RangeOf(result'[Doom]), again)
           /\ RangeOf(dispatched') \subseteq RangeOf(dispatched) \cup {r}
    BY <1>0, <1>9, DispatchEffect
  <2> QED
    BY <1>0, <2>1, <2>2 DEF RingInv, Mirrored, Before
<1>10. CASE QuietStep
  <2>1. UNCHANGED <<ccs, again, produced, queue, result, dispatched>>
    BY <1>0, <1>10, QuietEffect
  <2> QED
    BY <1>0, <2>1 DEF RingInv, Mirrored
<1>11. CASE UNCHANGED vars
  <2>1. UNCHANGED <<ccs, again, produced, queue, result, dispatched>>
    BY <1>11 DEF vars, keyboardVars, classVars, queueVars, doomVars
  <2> QED
    BY <1>0, <2>1 DEF RingInv, Mirrored
<1> QED
  BY <1>1, <1>2, <1>3, <1>4, <1>5, <1>6, <1>7, <1>8, <1>9, <1>10, <1>11 DEF Next,
     KeyStep, QuietStep, FilterStep, GameStep

(* What ccs had stays out of the ring.                                       *)
LEMMA StaleStep == IInv /\ [Next]_vars => StaleInv'
<1> SUFFICES ASSUME IInv, [Next]_vars PROVE StaleInv'
  OBVIOUS
<1>0. TypeOK /\ WireInv /\ RingInv /\ GameInv /\ StaleInv
  BY DEF IInv
<1>1. ASSUME NEW b \in Keyboards, NEW key \in Keys, KeyStep(b, key) PROVE StaleInv'
  <2>1. UNCHANGED <<ccs, queue, result, dispatched, stale, game>>
    BY <1>0, <1>1, KeyEffect
  <2> QED
    BY <1>0, <2>1 DEF StaleInv, Mirrored, Running
<1>2. ASSUME NEW b \in Keyboards, Report(b) PROVE StaleInv'
  <2>1. UNCHANGED <<ccs, queue, result, dispatched, stale, game>>
    BY <1>0, <1>2, ReportEffect
  <2> QED
    BY <1>0, <2>1 DEF StaleInv, Mirrored, Running
<1>3. ASSUME NEW b \in Keyboards, Mirror(b) PROVE StaleInv'
  <2>1. /\ UNCHANGED <<ccs, stale, game, result, dispatched>>
        /\ RangeOf(queue') \subseteq RangeOf(queue) \cup RangeOf(batch[b])
    BY <1>0, <1>3, MirrorEffect
  <2>2. ASSUME NEW t \in RangeOf(batch[b]), t \in ccs PROVE FALSE
    <3>1. t.n < t.n
      BY <1>0, <2>2 DEF WireInv, Before
    <3>2. t.n \in Nat
      BY <1>0, <2>2, WayTypes, RecordFields
    <3> QED
      BY <3>1, <3>2
  <2> QED
    BY <1>0, <2>1, <2>2 DEF StaleInv, Mirrored, Running
<1>4. ASSUME NEW b \in Keyboards, Forward(b) PROVE StaleInv'
  <2>1. UNCHANGED <<queue, result, dispatched, stale, game>> /\ ccs \subseteq ccs'
    BY <1>0, <1>4, ForwardEffect
  <2> QED
    BY <1>0, <2>1 DEF StaleInv, Mirrored, Running
<1>5. CASE Launch
  <2>1. UNCHANGED <<ccs, stale>> /\ game' = "start"
    BY <1>5 DEF Launch, classVars
  <2> QED
    BY <1>0, <2>1 DEF StaleInv, Running
<1>6. CASE OpenDisplay
  <2>1. /\ UNCHANGED <<ccs, result, dispatched>> /\ stale' = ccs
        /\ RangeOf(queue') = {} /\ game = "start"
    BY <1>6, Empty DEF OpenDisplay, Queue!Open, classVars, doomVars
  <2>2. RangeOf(result[Doom]) = {} /\ RangeOf(dispatched) = {}
    BY <1>0, <2>1, Empty DEF GameInv
  <2> QED
    BY <2>1, <2>2 DEF StaleInv, Mirrored
<1>7. CASE OtherOpen
  <2>1. UNCHANGED <<ccs, result, dispatched, stale, game>> /\ RangeOf(queue') = {}
    BY <1>7, Empty DEF OtherOpen, Queue!Open, classVars, doomVars, launchVars
  <2> QED
    BY <1>0, <2>1 DEF StaleInv, Mirrored, Running
<1>8. CASE Drain
  <2>1. /\ UNCHANGED <<ccs, dispatched, stale>> /\ game = "drain"
        /\ RangeOf(queue) = RangeOf(result'[Doom]) \cup RangeOf(queue')
    BY <1>0, <1>8, DrainEffect
  <2> QED
    BY <1>0, <2>1 DEF StaleInv, Mirrored, Running
<1>9. CASE Dispatch
  <2>1. UNCHANGED <<ccs, stale, game, queue>>
    BY <1>0, <1>9, DispatchEffect
  <2>2. PICK r \in Records :
           /\ RangeOf(result[Doom]) = {r} \cup RangeOf(result'[Doom])
           /\ RangeOf(dispatched') \subseteq RangeOf(dispatched) \cup {r}
    BY <1>0, <1>9, DispatchEffect
  <2> QED
    BY <1>0, <2>1, <2>2 DEF StaleInv, Mirrored, Running
<1>10. CASE QuietStep
  <2>1. UNCHANGED <<ccs, queue, result, dispatched, stale>> /\ (Running' => Running)
    BY <1>0, <1>10, QuietEffect
  <2> QED
    BY <1>0, <2>1 DEF StaleInv, Mirrored
<1>11. CASE UNCHANGED vars
  <2>1. UNCHANGED <<ccs, queue, result, dispatched, stale, game>>
    BY <1>11 DEF vars, classVars, queueVars, doomVars, launchVars
  <2> QED
    BY <1>0, <2>1 DEF StaleInv, Mirrored, Running
<1> QED
  BY <1>1, <1>2, <1>3, <1>4, <1>5, <1>6, <1>7, <1>8, <1>9, <1>10, <1>11 DEF Next,
     KeyStep, QuietStep, FilterStep, GameStep

(* A press that kbdclass has not taken keeps its release.                    *)
LEMMA ReleaseStep == IInv /\ [Next]_vars => ReleaseInv'
<1> SUFFICES ASSUME IInv, [Next]_vars PROVE ReleaseInv'
  OBVIOUS
<1>0. TypeOK /\ WireInv /\ RingInv /\ GameInv /\ ReleaseInv
  BY DEF IInv
<1>1. ASSUME NEW b \in Keyboards, NEW key \in Keys, KeyStep(b, key) PROVE ReleaseInv'
  <2>1. batch' = batch
    BY <1>0, <1>1, KeyEffect
  <2>2. PICK r \in Records :
           /\ r.kbd = b /\ wire'[b] = wire[b] \o <<r>>
           /\ RangeOf(wire'[b]) = RangeOf(wire[b]) \cup {r}
           /\ held[b] \ held'[b] \subseteq (IF r.brk THEN {r.key} ELSE {})
           /\ r.brk \/ r.key \in held'[b]
    BY <1>0, <1>1, KeyEffect
  <2>3. \A c \in Keyboards \ {b} : wire'[c] = wire[c] /\ held'[c] = held[c]
    BY <1>0, <1>1, KeyEffect
  <2>4. ASSUME NEW c \in Keyboards
        PROVE  /\ wire[c] \in Seq(Records) /\ batch[c] \in Seq(Records)
               /\ \A t \in RangeOf(wire[c]) \cup RangeOf(batch[c]) : t.kbd = c
               /\ ComesUp(held, wire[c], {}) /\ ComesUp(held, batch[c], RangeOf(wire[c]))
    BY <1>0 DEF TypeOK, WireInv, ReleaseInv
  <2> SUFFICES ASSUME NEW c \in Keyboards
               PROVE  /\ ComesUp(held', wire'[c], {})
                      /\ ComesUp(held', batch[c], RangeOf(wire'[c]))
    BY <2>1 DEF ReleaseInv
  <2>5. CASE c # b
    <3>1. \A t \in RangeOf(wire[c]) \cup RangeOf(batch[c]) :
             t.key \in held[t.kbd] => t.key \in held'[t.kbd]
      BY <2>3, <2>4, <2>5
    <3> QED
      BY <2>3, <2>4, <2>5, <3>1, ComesUpGrows
  <2>6. CASE c = b
    <3>1. \A t \in RangeOf(wire[b]) \cup RangeOf(batch[b]) :
             t.key \in held[t.kbd] => t.key \in held'[t.kbd] \/ Lifts(r, t)
      BY <2>2, <2>4 DEF Lifts
    <3>2. ComesUp(held', wire[b], RangeOf(<<r>>) \cup {})
      <4>1. r \in RangeOf(<<r>>) \cup {} /\ {} \subseteq RangeOf(<<r>>) \cup {}
        BY Single
      <4> QED
        BY <2>4, <3>1, <4>1, ComesUpGrows
    <3>3. <<r>> \in Seq(Records) /\ ComesUp(held', <<r>>, {})
      BY <2>2, Single
    <3>4. ComesUp(held', wire'[b], {})
      <4>1. wire'[b] = wire[b] \o <<r>> /\ wire[b] \in Seq(Records)
        BY <2>2, <2>4
      <4>2. ComesUp(held', wire[b] \o <<r>>, {})
        BY <3>2, <3>3, <4>1, JoinUp
      <4> QED
        BY <4>1, <4>2
    <3>5. ComesUp(held', batch[b], RangeOf(wire'[b]))
      <4>1. r \in RangeOf(wire'[b]) /\ RangeOf(wire[b]) \subseteq RangeOf(wire'[b])
        BY <2>2
      <4> QED
        BY <2>4, <3>1, <4>1, ComesUpGrows
    <3> QED
      BY <2>6, <3>4, <3>5
  <2> QED
    BY <2>5, <2>6
<1>2. ASSUME NEW b \in Keyboards, Report(b) PROVE ReleaseInv'
  <2>1. /\ held' = held /\ \A c \in Keyboards \ {b} : wire'[c] = wire[c] /\ batch'[c] = batch[c]
    BY <1>0, <1>2, ReportEffect
  <2>2. PICK n \in 0..Len(wire[b]) :
           batch'[b] = Front(wire[b], n) /\ wire'[b] = Back(wire[b], n)
    BY <1>0, <1>2, ReportEffect
  <2>3. wire[b] \in Seq(Records) /\ ComesUp(held, wire[b], {})
    BY <1>0 DEF TypeOK, ReleaseInv
  <2>4. ComesUp(held, batch'[b], RangeOf(wire'[b]) \cup {}) /\ ComesUp(held, wire'[b], {})
    BY <2>2, <2>3, CutUp, Zenon
  <2>5. RangeOf(wire'[b]) \cup {} = RangeOf(wire'[b])
    OBVIOUS
  <2> QED
    BY <1>0, <2>1, <2>4, <2>5 DEF ReleaseInv
<1>3. ASSUME NEW b \in Keyboards, Mirror(b) PROVE ReleaseInv'
  BY <1>0, <1>3, MirrorEffect DEF ReleaseInv
<1>4. ASSUME NEW b \in Keyboards, Forward(b) PROVE ReleaseInv'
  <2>1. /\ held' = held /\ batch'[b] = <<>>
        /\ \A c \in Keyboards \ {b} : wire'[c] = wire[c] /\ batch'[c] = batch[c]
    BY <1>0, <1>4, ForwardEffect
  <2>2. PICK n \in 0..Len(batch[b]) : wire'[b] = Back(batch[b], n) \o wire[b]
    BY <1>0, <1>4, ForwardEffect
  <2>3. /\ wire[b] \in Seq(Records) /\ batch[b] \in Seq(Records)
        /\ ComesUp(held, wire[b], {}) /\ ComesUp(held, batch[b], RangeOf(wire[b]))
    BY <1>0 DEF TypeOK, ReleaseInv
  <2>4. /\ Back(batch[b], n) \in Seq(Records)
        /\ ComesUp(held, Back(batch[b], n), RangeOf(wire[b]))
    BY <2>3, Cut
  <2>5. RangeOf(wire[b]) \cup {} = RangeOf(wire[b])
    OBVIOUS
  <2>6. ComesUp(held, wire'[b], {})
    BY <2>2, <2>3, <2>4, <2>5, JoinUp
  <2>7. ComesUp(held, batch'[b], RangeOf(wire'[b]))
    BY <2>1, Empty
  <2> QED
    BY <1>0, <2>1, <2>6, <2>7 DEF ReleaseInv
<1>5. CASE Launch
  BY <1>0, <1>5 DEF Launch, keyboardVars, filterVars, ReleaseInv
<1>6. CASE OpenDisplay
  BY <1>0, <1>6 DEF OpenDisplay, keyboardVars, filterVars, ReleaseInv
<1>7. CASE OtherOpen
  BY <1>0, <1>7 DEF OtherOpen, keyboardVars, filterVars, ReleaseInv
<1>8. CASE Drain
  BY <1>0, <1>8, DrainEffect DEF ReleaseInv
<1>9. CASE Dispatch
  BY <1>0, <1>9, DispatchEffect DEF ReleaseInv
<1>10. CASE QuietStep
  BY <1>0, <1>10, QuietEffect DEF ReleaseInv
<1>11. CASE UNCHANGED vars
  BY <1>0, <1>11 DEF vars, keyboardVars, filterVars, ReleaseInv
<1> QED
  BY <1>1, <1>2, <1>3, <1>4, <1>5, <1>6, <1>7, <1>8, <1>9, <1>10, <1>11 DEF Next,
     KeyStep, QuietStep, FilterStep, GameStep

(* No release overtakes its press, and none is lost without a word.           *)
LEMMA StuckStep == IInv /\ [Next]_vars => StuckInv'
<1> SUFFICES ASSUME IInv, [Next]_vars PROVE StuckInv'
  OBVIOUS
<1>0. TypeOK /\ WireInv /\ RingInv /\ GameInv /\ ReleaseInv /\ StuckInv
  BY DEF IInv
<1>1. ASSUME NEW b \in Keyboards, NEW key \in Keys, KeyStep(b, key) PROVE StuckInv'
  <2>1. UNCHANGED <<callback, batch, queue, result, game, keyboard_available, down, lost>>
    BY <1>0, <1>1, KeyEffect
  <2>2. PICK r \in Records :
           /\ r.kbd = b /\ RangeOf(wire'[b]) = RangeOf(wire[b]) \cup {r}
           /\ held[b] \ held'[b] \subseteq (IF r.brk THEN {r.key} ELSE {})
    BY <1>0, <1>1, KeyEffect
  <2>3. \A c \in Keyboards \ {b} : wire'[c] = wire[c] /\ held'[c] = held[c]
    BY <1>0, <1>1, KeyEffect
  <2>4. Coming \subseteq Coming' /\ r \in Coming'
    <3>1. /\ r \in Unmirrored(b)'
          /\ \A c \in Keyboards : Unmirrored(c) \subseteq Unmirrored(c)'
      BY <2>1, <2>2, <2>3 DEF Unmirrored
    <3> QED
      BY <3>1 DEF Coming
  <2>5. \A c \in Keyboards : \A k \in held[c] :
           k \in held'[c] \/ (r.kbd = c /\ r.key = k /\ r.brk)
    BY <2>2, <2>3
  <2>6. \A t \in Records : t.key \in held[t.kbd] => t.key \in held'[t.kbd] \/ Lifts(r, t)
    BY <2>5, RecordFields DEF Lifts
  <2>7. RangeOf(queue) \subseteq Records /\ RangeOf(result[Doom]) \subseteq Records
    BY <1>0, WayTypes
  <2> SUFFICES ASSUME Running, ~lost, keyboard_available
               PROVE  /\ ComesUp(held', queue, Coming')
                      /\ ComesUp(held', result[Doom], RangeOf(queue) \cup Coming')
                      /\ \A d \in down : \E c \in Keyboards, k \in Keys :
                            /\ scan_code_to_doom(k) = d
                            /\ \/ k \in held'[c]
                               \/ \E t \in RangeOf(result[Doom]) \cup RangeOf(queue) \cup Coming' :
                                     t.kbd = c /\ t.key = k /\ t.brk
    BY <2>1 DEF StuckInv, Running
  <2>8. ComesUp(held', queue, Coming')
    BY <1>0, <2>4, <2>6, <2>7, ComesUpGrows DEF StuckInv
  <2>9. ComesUp(held', result[Doom], RangeOf(queue) \cup Coming')
    <3>1. /\ RangeOf(queue) \cup Coming \subseteq RangeOf(queue) \cup Coming'
          /\ r \in RangeOf(queue) \cup Coming'
      BY <2>4
    <3>2. ComesUp(held, result[Doom], RangeOf(queue) \cup Coming)
      BY <1>0 DEF StuckInv
    <3> QED
      BY <2>6, <2>7, <3>1, <3>2, ComesUpGrows
  <2>10. ASSUME NEW d \in down
         PROVE  \E c \in Keyboards, k \in Keys :
                   /\ scan_code_to_doom(k) = d
                   /\ \/ k \in held'[c]
                      \/ \E t \in RangeOf(result[Doom]) \cup RangeOf(queue) \cup Coming' :
                            t.kbd = c /\ t.key = k /\ t.brk
    <3>1. PICK c \in Keyboards, k \in Keys :
             /\ scan_code_to_doom(k) = d
             /\ \/ k \in held[c]
                \/ \E t \in RangeOf(result[Doom]) \cup RangeOf(queue) \cup Coming :
                      t.kbd = c /\ t.key = k /\ t.brk
      BY <1>0 DEF StuckInv
    <3> QED
      BY <2>4, <2>5, <3>1
  <2> QED
    BY <2>8, <2>9, <2>10
<1>2. ASSUME NEW b \in Keyboards, Report(b) PROVE StuckInv'
  <2>1. /\ UNCHANGED <<held, queue, result, game, keyboard_available, down, lost>>
        /\ callback[b] = "idle" /\ callback'[b] = "queue"
        /\ \A c \in Keyboards \ {b} :
              wire'[c] = wire[c] /\ batch'[c] = batch[c] /\ callback'[c] = callback[c]
        /\ RangeOf(wire[b]) = RangeOf(batch'[b]) \cup RangeOf(wire'[b])
    BY <1>0, <1>2, ReportEffect DEF TypeOK
  <2>2. \A c \in Keyboards : Unmirrored(c)' = Unmirrored(c)
    BY <2>1 DEF Unmirrored
  <2>3. Coming' = Coming
    BY <2>2 DEF Coming
  <2> QED
    BY <1>0, <2>1, <2>3 DEF StuckInv, Running
<1>3. ASSUME NEW b \in Keyboards, Mirror(b) PROVE StuckInv'
  <2>1. /\ UNCHANGED <<held, wire, batch, result, game, keyboard_available, down>>
        /\ callback[b] = "queue" /\ callback'[b] = "forward"
        /\ \A c \in Keyboards \ {b} : callback'[c] = callback[c]
        /\ ~lost' => ~lost /\ queue' = queue \o batch[b]
    BY <1>0, <1>3, MirrorEffect DEF TypeOK
  <2>2. /\ Unmirrored(b) = RangeOf(wire[b]) \cup RangeOf(batch[b])
        /\ Unmirrored(b)' = RangeOf(wire[b])
        /\ \A c \in Keyboards \ {b} : Unmirrored(c)' = Unmirrored(c)
    BY <2>1 DEF Unmirrored
  <2>3. Coming = RangeOf(batch[b]) \cup Coming' /\ RangeOf(wire[b]) \subseteq Coming'
    BY <2>2 DEF Coming
  <2>4. queue \in Seq(Records) /\ batch[b] \in Seq(Records)
    BY <1>0 DEF TypeOK
  <2>5. ComesUp(held, batch[b], Coming')
    <3>1. ComesUp(held, batch[b], RangeOf(wire[b]))
      BY <1>0 DEF ReleaseInv
    <3> QED
      BY <2>3, <3>1, ComesUpGrows
  <2> SUFFICES ASSUME Running, ~lost'
               PROVE  keyboard_available =>
                      /\ ComesUp(held, queue', Coming')
                      /\ ComesUp(held, result[Doom], RangeOf(queue') \cup Coming')
                      /\ \A d \in down : \E c \in Keyboards, k \in Keys :
                            /\ scan_code_to_doom(k) = d
                            /\ \/ k \in held[c]
                               \/ \E t \in RangeOf(result[Doom]) \cup RangeOf(queue') \cup Coming' :
                                     t.kbd = c /\ t.key = k /\ t.brk
    BY <2>1 DEF StuckInv, Running
  <2>6. RangeOf(queue') = RangeOf(queue) \cup RangeOf(batch[b])
    BY <2>1, <2>4, Join
  <2>7. ComesUp(held, queue, RangeOf(batch[b]) \cup Coming') => ComesUp(held, queue', Coming')
    BY <2>1, <2>4, <2>5, JoinUp, Zenon
  <2>8. RangeOf(queue') \cup Coming' = RangeOf(queue) \cup Coming
    BY <2>3, <2>6
  <2>9. RangeOf(result[Doom]) \cup RangeOf(queue') \cup Coming' =
           RangeOf(result[Doom]) \cup RangeOf(queue) \cup Coming
    BY <2>8
  <2> QED
    BY <1>0, <2>1, <2>3, <2>7, <2>8, <2>9 DEF StuckInv
<1>4. ASSUME NEW b \in Keyboards, Forward(b) PROVE StuckInv'
  <2>1. /\ UNCHANGED <<held, queue, result, game, keyboard_available, down, lost>>
        /\ callback[b] = "forward" /\ callback'[b] = "idle" /\ batch[b] \in Seq(Records)
        /\ \A c \in Keyboards \ {b} :
              wire'[c] = wire[c] /\ batch'[c] = batch[c] /\ callback'[c] = callback[c]
    BY <1>0, <1>4, ForwardEffect DEF TypeOK
  <2>2. RangeOf(wire[b]) \subseteq RangeOf(wire'[b])
    <3>1. PICK n \in 0..Len(batch[b]) : wire'[b] = Back(batch[b], n) \o wire[b]
      BY <1>0, <1>4, ForwardEffect
    <3>2. Back(batch[b], n) \in Seq(Records) /\ wire[b] \in Seq(Records)
      BY <1>0, <2>1, Cut DEF TypeOK
    <3> QED
      BY <3>1, <3>2, Join
  <2>3. \A c \in Keyboards : Unmirrored(c) \subseteq Unmirrored(c)'
    BY <2>1, <2>2 DEF Unmirrored
  <2>4. Coming \subseteq Coming'
    BY <2>3 DEF Coming
  <2>5. \A q : ComesUp(held, q, Coming) => ComesUp(held, q, Coming')
    BY <2>4, ComesUpGrows
  <2>6. ComesUp(held, result[Doom], RangeOf(queue) \cup Coming) =>
           ComesUp(held, result[Doom], RangeOf(queue) \cup Coming')
    <3>1. RangeOf(queue) \cup Coming \subseteq RangeOf(queue) \cup Coming'
      BY <2>4
    <3> QED
      BY <3>1, ComesUpGrows
  <2> QED
    BY <1>0, <2>1, <2>4, <2>5, <2>6 DEF StuckInv, Running
<1>5. CASE Launch
  BY <1>5 DEF Launch, StuckInv, Running
<1>6. CASE OpenDisplay
  <2>1. UNCHANGED <<result, down>> /\ queue' = <<>> /\ game = "start"
    BY <1>6 DEF OpenDisplay, Queue!Open, doomVars
  <2>2. result'[Doom] = <<>> /\ down' = {}
    BY <1>0, <2>1 DEF GameInv
  <2> QED
    BY <2>1, <2>2, Empty DEF StuckInv
<1>7. CASE OtherOpen
  <2>1. /\ UNCHANGED <<held, wire, callback, batch, result, game, keyboard_available, down>>
        /\ ~lost' => ~lost /\ queue' = queue
    BY <1>7 DEF OtherOpen, Queue!Open, keyboardVars, filterVars, doomVars
  <2>2. Coming' = Coming
    BY <2>1 DEF Coming, Unmirrored
  <2> QED
    BY <1>0, <2>1, <2>2 DEF StuckInv, Running
<1>8. CASE Drain
  <2>1. /\ UNCHANGED <<held, wire, callback, batch, keyboard_available, down, lost>>
        /\ game = "drain" /\ queue \in Seq(Records)
        /\ RangeOf(queue) = RangeOf(result'[Doom]) \cup RangeOf(queue')
    BY <1>0, <1>8, DrainEffect DEF TypeOK
  <2>2. PICK n \in 0..Len(queue) : result'[Doom] = Front(queue, n) /\ queue' = Back(queue, n)
    BY <1>0, <1>8, DrainEffect
  <2>3. RangeOf(result[Doom]) = {}
    BY <1>0, <2>1, Empty DEF GameInv
  <2>4. Coming' = Coming
    BY <2>1 DEF Coming, Unmirrored
  <2>5. ComesUp(held, queue, Coming) =>
           /\ ComesUp(held, queue', Coming)
           /\ ComesUp(held, result'[Doom], RangeOf(queue') \cup Coming)
    BY <2>1, <2>2, CutUp, Zenon
  <2> QED
    BY <1>0, <2>1, <2>3, <2>4, <2>5 DEF StuckInv, Running
<1>9. CASE Dispatch
  <2>1. UNCHANGED <<held, wire, callback, batch, queue, game, keyboard_available, lost>>
    BY <1>0, <1>9, DispatchEffect
  <2>2. PICK r \in Records :
           /\ RangeOf(result[Doom]) = {r} \cup RangeOf(result'[Doom])
           /\ result[Doom] = <<r>> \o result'[Doom]
           /\ LET d == scan_code_to_doom(r.key)
              IN  \/ d = UNKNOWN /\ down' = down
                  \/ d # UNKNOWN /\ down' = IF r.brk THEN down \ {d} ELSE down \cup {d}
    BY <1>0, <1>9, DispatchEffect
  <2>3. Coming' = Coming
    BY <2>1 DEF Coming, Unmirrored
  <2> DEFINE q == result'[Doom]
             Rest == RangeOf(queue) \cup Coming
  <2>4. q \in Seq(Records)
    BY <1>0, <1>9, DispatchEffect
  <2>5. RangeOf(q) \cup RangeOf(queue) \cup Coming = RangeOf(q) \cup Rest
    OBVIOUS
  <2> SUFFICES ASSUME Running, ~lost, keyboard_available
               PROVE  /\ ComesUp(held, q, Rest)
                      /\ \A d \in down' : \E c \in Keyboards, k \in Keys :
                            /\ scan_code_to_doom(k) = d
                            /\ \/ k \in held[c]
                               \/ \E t \in RangeOf(q) \cup Rest :
                                     t.kbd = c /\ t.key = k /\ t.brk
    BY <1>0, <2>1, <2>3, <2>5 DEF StuckInv, Running
  <2>6. ComesUp(held, result[Doom], Rest)
    BY <1>0 DEF StuckInv
  <2> HIDE DEF q, Rest
  <2>7. /\ ComesUp(held, q, Rest)
        /\ r.brk \/ r.key \in held[r.kbd] \/ \E t \in RangeOf(q) \cup Rest : Lifts(t, r)
    BY <2>2, <2>4, <2>6, HeadUp DEF q
  <2>8. ASSUME NEW d \in down'
        PROVE  \E c \in Keyboards, k \in Keys :
                  /\ scan_code_to_doom(k) = d
                  /\ \/ k \in held[c]
                     \/ \E t \in RangeOf(q) \cup Rest : t.kbd = c /\ t.key = k /\ t.brk
    <3>1. CASE d \in down /\ (r.brk => scan_code_to_doom(r.key) # d)
      <4>1. PICK c \in Keyboards, k \in Keys :
               /\ scan_code_to_doom(k) = d
               /\ \/ k \in held[c]
                  \/ \E t \in {r} \cup RangeOf(q) \cup Rest : t.kbd = c /\ t.key = k /\ t.brk
        BY <1>0, <2>2, <3>1 DEF StuckInv, q, Rest
      <4>2. ~(r.key = k /\ r.brk)
        BY <3>1, <4>1
      <4> QED
        BY <4>1, <4>2
    <3>2. CASE scan_code_to_doom(r.key) = d /\ ~r.brk
      <4>1. r.key \in Keys /\ r.kbd \in Keyboards
        BY RecordFields
      <4>2. \/ r.key \in held[r.kbd]
            \/ \E t \in RangeOf(q) \cup Rest : t.kbd = r.kbd /\ t.key = r.key /\ t.brk
        BY <2>7, <3>2 DEF Lifts
      <4> QED
        BY <3>2, <4>1, <4>2
    <3> QED
      BY <1>0, <2>2, <3>1, <3>2 DEF TypeOK
  <2> QED
    BY <2>7, <2>8
<1>10. CASE QuietStep
  <2>1. /\ UNCHANGED <<held, wire, callback, batch, queue, result, down, lost>>
        /\ (Running' => Running) /\ (keyboard_available' => keyboard_available)
    BY <1>0, <1>10, QuietEffect
  <2>2. Coming' = Coming
    BY <2>1 DEF Coming, Unmirrored
  <2> QED
    BY <1>0, <2>1, <2>2 DEF StuckInv
<1>11. CASE UNCHANGED vars
  <2>1. UNCHANGED <<held, wire, callback, batch, queue, result, down, lost, game,
                    keyboard_available>>
    BY <1>11 DEF vars, keyboardVars, filterVars, queueVars, doomVars
  <2>2. Coming' = Coming
    BY <2>1 DEF Coming, Unmirrored
  <2> QED
    BY <1>0, <2>1, <2>2 DEF StuckInv, Running
<1> QED
  BY <1>1, <1>2, <1>3, <1>4, <1>5, <1>6, <1>7, <1>8, <1>9, <1>10, <1>11 DEF Next,
     KeyStep, QuietStep, FilterStep, GameStep

-----------------------------------------------------------------------------
(* The invariant holds, and what follows from it.                           *)

(* The inductive invariant holds in every state.                            *)
THEOREM Invariance == Spec => []IInv
<1>1. IInv /\ [Next]_vars => IInv'
  BY TypeStep, GameInvStep, WireStep, RingStep, StaleStep, ReleaseStep, StuckStep DEF
     IInv
<1> QED
  BY InitInv, <1>1, PTL DEF Spec

(* Every variable stays in its type: the ring never holds more than it has     *)
(* room for, no poll answers with more than was asked for, and no key of no    *)
(* meaning is down in doom.                                                 *)
THEOREM TypeCorrect == Spec => []TypeOK
<1>1. IInv => TypeOK
  BY DEF IInv
<1> QED BY <1>1, Invariance, PTL

(* What ccs had received when doom opened the control device never becomes     *)
(* doom input: each record is mirrored before it is forwarded, and the open   *)
(* empties the ring.                                                        *)
THEOREM StaleKeptOut == Spec => []NothingStaleDispatched
<1>1. IInv => NothingStaleDispatched
  BY DEF IInv, StaleInv, Mirrored, NothingStaleDispatched
<1> QED
  BY Invariance, <1>1, PTL

(* As long as no record is dropped, a key that is down for the engine is held  *)
(* or its release is still on the way, for any number of keyboards and however *)
(* often records are reported again.                                        *)
THEOREM KeysComeUp == Spec => []NoStuckKey
<1>1. ASSUME IInv PROVE NoStuckKey
  <2> SUFFICES ASSUME Running, ~lost, keyboard_available, NEW d \in down
               PROVE  \E b \in Keyboards, key \in Keys :
                         /\ scan_code_to_doom(key) = d
                         /\ \/ key \in held[b]
                            \/ \E r \in OnTheWay : r.kbd = b /\ r.key = key /\ r.brk
    BY DEF NoStuckKey
  <2> QED
    BY <1>1, WayMembers DEF IInv, StuckInv
<1> QED
  BY Invariance, <1>1, PTL

(* What doom dispatches of one keyboard is younger than all it has dispatched  *)
(* of it before, and so no record comes twice, through every batch, overflow,  *)
(* poll and open; only a record that kbdclass left, which the port driver      *)
(* reports again, may come again.                                            *)
THEOREM OrderKept == Spec => DispatchInOrder
<1> DEFINE Younger == Len(dispatched') > Len(dispatched) =>
                          LET r == dispatched'[Len(dispatched')]
                          IN  r \notin again =>
                                  \A i \in DOMAIN dispatched :
                                      dispatched[i].kbd = r.kbd => dispatched[i].n < r.n
<1>1. ASSUME IInv, Next PROVE Younger
  <2>0. TypeOK /\ WireInv /\ RingInv
    BY <1>1 DEF IInv
  <2>1. CASE Dispatch
    <3>1. PICK r \in Records :
             /\ RangeOf(result[Doom]) = {r} \cup RangeOf(result'[Doom])
             /\ dispatched' = dispatched \/ dispatched' = Append(dispatched, r)
      BY <2>0, <2>1, DispatchEffect
    <3>2. CASE dispatched' = dispatched
      BY <2>0, <3>2 DEF TypeOK
    <3>3. CASE dispatched' = Append(dispatched, r)
      <4>1. dispatched \in Seq(Records)
        BY <2>0 DEF TypeOK
      <4>2. dispatched'[Len(dispatched')] = r
        BY <3>1, <3>3, <4>1
      <4>3. \A i \in DOMAIN dispatched : dispatched[i] \in RangeOf(dispatched)
        BY DEF RangeOf
      <4> QED
        BY <2>0, <3>1, <4>2, <4>3 DEF RingInv, Before
    <3> QED
      BY <3>1, <3>2, <3>3
  <2>2. CASE Launch
    BY <2>0, <2>2 DEF Launch, TypeOK
  <2>3. CASE ~Dispatch /\ ~Launch
    <3>1. dispatched' = dispatched
      BY <1>1, <2>3 DEF Next, Press, Repeat, LetGo, Produce, FilterStep, Report, Mirror,
             Forward, GameStep, OpenDisplay, Exit, PollKeyboard, SkipKeyboard, PollFails,
             Drain, Dispatched, Update, Present, Frame, OtherOpen, doomVars
    <3> QED
      BY <2>0, <3>1 DEF TypeOK
  <2> QED
    BY <2>1, <2>2, <2>3
<1>2. IInv /\ [Next]_vars => [Younger]_vars
  BY <1>1
<1> QED
  BY Invariance, <1>2, PTL DEF Spec, DispatchInOrder
===============================================================================
