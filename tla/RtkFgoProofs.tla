------------------------------ MODULE RtkFgoProofs ------------------------------
(***************************************************************************)
(* Proofs about RtkFgo: what the sliding window preserves, first of any    *)
(* graph, then of the node; what a lock stands for and how it is lost.     *)
(***************************************************************************)
EXTENDS RtkFgo, SequenceTheorems, TLAPS

(* A graph whose states are numbered from 0, whose records stand at the     *)
(* state they were made for, with wheel motions that run forward to a sample *)
(* near their state.                                                         *)
Numbered(g) == \A i \in 1 .. Len(g.states) : g.states[i].index = i - 1

Recorded(g) ==
  \A r \in g.rtk \cup g.headings :
    r.index + 1 \in 1 .. Len(g.states) /\ g.states[r.index + 1].stamp = r.of

Forward(t) == t.since <= t.until /\ Distance(t.until, t.stamp) <= WheelTolerance

Linked(g) ==
  \A t \in g.transitions :
    /\ t.to = t.from + 1 /\ t.from + 2 \in 1 .. Len(g.states)
    /\ g.states[t.from + 2].stamp = t.stamp
    /\ t.until # 0 => Forward(t)

Sound(g) == g \in FactorGraphs /\ Numbered(g) /\ Recorded(g) /\ Linked(g)
--------------------------------------------------------------------------------
LEMMA GraphType ==
  ASSUME NEW ss \in Seq(States), NEW ts \in SUBSET Transitions,
         NEW rs \in SUBSET Records, NEW hs \in SUBSET Records
  PROVE  [states |-> ss, transitions |-> ts, rtk |-> rs, headings |-> hs] \in FactorGraphs
BY DEF FactorGraphs

(* addInitialState *)
LEMMA InitialSound ==
  ASSUME NEW stamp \in 0 .. MaxStamp
  PROVE  /\ Sound(AddInitialState(stamp))
         /\ Len(AddInitialState(stamp).states) = 1
         /\ AddInitialState(stamp).states[1].stamp = stamp
         /\ AddInitialState(stamp).transitions = {}
<1> DEFINE g == AddInitialState(stamp)
           s == [stamp |-> stamp, index |-> 0]
<1>1. /\ g.states = <<s>> /\ g.transitions = {} /\ g.rtk = {} /\ g.headings = {}
      /\ g = [states |-> <<s>>, transitions |-> {}, rtk |-> {}, headings |-> {}]
  <2>1. g = [EmptyGraph EXCEPT !.states = <<s>>]
    BY DEF AddInitialState
  <2> HIDE DEF g, s
  <2>2. g = [states |-> <<s>>, transitions |-> {}, rtk |-> {}, headings |-> {}]
    BY <2>1 DEF EmptyGraph
  <2> QED BY <2>2
<1>2. s \in States /\ s.index = 0 /\ s.stamp = stamp
  BY DEF States
<1>3. <<s>> \in Seq(States) /\ Len(<<s>>) = 1 /\ <<s>>[1] = s
  BY <1>2
<1>4. g \in FactorGraphs
  <2> HIDE DEF g, s
  <2>1. {} \in SUBSET Transitions /\ {} \in SUBSET Records
    OBVIOUS
  <2> QED BY <2>1, <1>1, <1>3, GraphType
<1> HIDE DEF g, s
<1>5. Numbered(g)
  BY <1>1, <1>2, <1>3 DEF Numbered
<1>6. Recorded(g) /\ Linked(g)
  BY <1>1 DEF Recorded, Linked
<1>7. Sound(g) /\ Len(g.states) = 1 /\ g.states[1].stamp = stamp /\ g.transitions = {}
  BY <1>1, <1>2, <1>3, <1>4, <1>5, <1>6 DEF Sound
<1> QED BY <1>7 DEF g

(* addFastLioBetween, before it prunes *)
LEMMA AddedSound ==
  ASSUME NEW g, Sound(g), g.states # <<>>,
         NEW stamp \in 0 .. MaxStamp,
         NEW since \in WheelStamps \cup {0}, NEW until \in WheelStamps \cup {0},
         until # 0 => since <= until /\ Distance(until, stamp) <= WheelTolerance
  PROVE  LET h == AddFastLioBetween(g, stamp, since, until) IN
         /\ Sound(h)
         /\ Len(h.states) = Len(g.states) + 1
         /\ h.states[Len(h.states)].stamp = stamp
         /\ \E t \in Transitions :
              /\ h.transitions = g.transitions \cup {t}
              /\ t.since = since /\ t.until = until
              /\ \A u \in g.transitions : u.from < t.from
<1> DEFINE L == Len(g.states)
           h == AddFastLioBetween(g, stamp, since, until)
           s == [stamp |-> stamp, index |-> L]
           t == [from |-> L - 1, to |-> L, stamp |-> stamp, since |-> since, until |-> until]
<1>1. /\ g \in FactorGraphs /\ Numbered(g) /\ Recorded(g) /\ Linked(g)
      /\ g.states \in Seq(States) /\ g.transitions \in SUBSET Transitions
      /\ g.rtk \in SUBSET Records /\ g.headings \in SUBSET Records
  BY DEF Sound, FactorGraphs
<1>2. L \in Nat \ {0} /\ L \in 1 .. L
  BY <1>1, EmptySeq
<1>3. g.states[L].index = L - 1 /\ (L - 1) + 1 = L
  BY <1>1, <1>2 DEF Numbered
<1>4. h = [g EXCEPT !.states = Append(g.states, s), !.transitions = g.transitions \cup {t}]
  BY <1>3 DEF AddFastLioBetween
<1>5. /\ h.states = Append(g.states, s) /\ h.transitions = g.transitions \cup {t}
      /\ h.rtk = g.rtk /\ h.headings = g.headings
  BY <1>1, <1>4 DEF FactorGraphs
<1>6. s \in States /\ s.stamp = stamp /\ s.index = L
  BY <1>2 DEF States
<1>7. /\ t \in Transitions /\ t.from = L - 1 /\ t.to = L /\ t.stamp = stamp
      /\ t.since = since /\ t.until = until
  BY <1>2 DEF Transitions
<1> HIDE DEF h, s, t, L
<1>8. /\ h.states \in Seq(States) /\ Len(h.states) = L + 1 /\ h.states[L + 1] = s
      /\ \A i \in 1 .. L : h.states[i] = g.states[i]
  BY <1>1, <1>5, <1>6 DEF L
<1>9. h \in FactorGraphs
  <2>1. g = [states |-> g.states, transitions |-> g.transitions,
             rtk |-> g.rtk, headings |-> g.headings]
    BY <1>1 DEF FactorGraphs
  <2>2. h = [states |-> Append(g.states, s), transitions |-> g.transitions \cup {t},
             rtk |-> g.rtk, headings |-> g.headings]
    BY <1>4, <2>1
  <2>3. Append(g.states, s) \in Seq(States) /\ g.transitions \cup {t} \in SUBSET Transitions
    BY <1>1, <1>6, <1>7
  <2> QED BY <2>2, <2>3, <1>1, GraphType
<1>10. Numbered(h)
  <2> SUFFICES ASSUME NEW i \in 1 .. L + 1 PROVE h.states[i].index = i - 1
    BY <1>8 DEF Numbered
  <2>1. CASE i = L + 1
    BY <2>1, <1>2, <1>6, <1>8
  <2>2. CASE i # L + 1
    <3>1. i \in 1 .. L
      BY <2>2, <1>2
    <3> QED BY <3>1, <1>1, <1>8 DEF Numbered, L
  <2> QED BY <2>1, <2>2
<1>11. Recorded(h)
  <2> SUFFICES ASSUME NEW r \in g.rtk \cup g.headings
               PROVE  r.index + 1 \in 1 .. L + 1 /\ h.states[r.index + 1].stamp = r.of
    BY <1>5, <1>8 DEF Recorded
  <2>1. r.index + 1 \in 1 .. L /\ g.states[r.index + 1].stamp = r.of
    BY <1>1 DEF Recorded, L
  <2> QED BY <2>1, <1>2, <1>8
<1>12. Linked(h)
  <2> SUFFICES ASSUME NEW u \in g.transitions \cup {t}
               PROVE  /\ u.to = u.from + 1 /\ u.from + 2 \in 1 .. L + 1
                      /\ h.states[u.from + 2].stamp = u.stamp
                      /\ u.until # 0 => Forward(u)
    BY <1>5, <1>8 DEF Linked
  <2>1. CASE u = t
    <3>1. u.from + 1 = L /\ u.from + 2 = L + 1 /\ u.to = L
      BY <2>1, <1>2, <1>7
    <3>2. u.until # 0 => Forward(u)
      BY <2>1, <1>7 DEF Forward
    <3> QED BY <2>1, <3>1, <3>2, <1>2, <1>6, <1>7, <1>8
  <2>2. CASE u \in g.transitions
    <3>1. /\ u.to = u.from + 1 /\ u.from + 2 \in 1 .. L
          /\ g.states[u.from + 2].stamp = u.stamp
          /\ u.until # 0 => Forward(u)
      BY <2>2, <1>1 DEF Linked, L
    <3>2. u.from \in Nat
      BY <2>2, <1>1 DEF Transitions
    <3>3. u.from + 1 \in 1 .. L /\ u.from + 2 \in 1 .. L + 1
      BY <3>1, <3>2, <1>2
    <3> QED BY <3>1, <3>3, <1>8
  <2> QED BY <2>1, <2>2
<1>14. \A u \in g.transitions : u.from < t.from
  <2> SUFFICES ASSUME NEW u \in g.transitions PROVE u.from < t.from
    OBVIOUS
  <2>1. u.from \in Nat /\ u.from + 2 \in 1 .. L
    BY <1>1 DEF Linked, L, Transitions
  <2> QED BY <2>1, <1>2, <1>7
<1>13. /\ Sound(h) /\ Len(h.states) = Len(g.states) + 1
       /\ h.states[Len(h.states)].stamp = stamp
  BY <1>6, <1>8, <1>9, <1>10, <1>11, <1>12 DEF Sound, L
<1> QED BY <1>5, <1>7, <1>13, <1>14 DEF h

(* rebuildActiveWindow: every record kept stands where it stood. *)
LEMMA KeptSound ==
  ASSUME NEW records \in SUBSET Records, NEW d \in Nat,
         NEW r \in Kept(records, d)
  PROVE  /\ r \in Records
         /\ \E q \in records : q.index = r.index + d /\ q.of = r.of
<1>1. PICK q \in records : q.index >= d /\ r = [q EXCEPT !.index = q.index - d]
  BY DEF Kept
<1>2. q \in [index : Nat, of : 0 .. MaxStamp]
  BY DEF Records
<1>3. r.index = q.index - d /\ r.of = q.of /\ q.index - d \in Nat
  BY <1>1, <1>2
<1>4. r = [index |-> q.index - d, of |-> q.of]
  BY <1>1, <1>2
<1> QED BY <1>2, <1>3, <1>4 DEF Records

(* The transitions of a rebuilt window are those from index d on, d lower.  *)
Shifted(before, after, d) ==
  /\ \A u \in after :
       /\ u \in Transitions
       /\ \E t \in before : /\ t.from = u.from + d
                            /\ t.since = u.since /\ t.until = u.until
  /\ \A t \in before : t.from >= d =>
       \E u \in after : u.from = t.from - d /\ u.until = t.until

LEMMA RebuiltSound ==
  ASSUME NEW g, Sound(g), Len(g.states) > MaxStates
  PROVE  LET h == RebuildActiveWindow(g) IN
         /\ Sound(h)
         /\ Len(h.states) = MaxStates
         /\ h.states[MaxStates].stamp = g.states[Len(g.states)].stamp
         /\ Shifted(g.transitions, h.transitions, Len(g.states) - MaxStates)
<1> DEFINE L == Len(g.states)
           d == L - MaxStates
           h == RebuildActiveWindow(g)
           new == [i \in 1 .. MaxStates |-> [g.states[i + d] EXCEPT !.index = i - 1]]
           ts == {[t EXCEPT !.from = t.from - d, !.to = t.to - d] :
                    t \in {q \in g.transitions : q.from >= d /\ q.to >= d}}
<1>1. /\ g \in FactorGraphs /\ Numbered(g) /\ Recorded(g) /\ Linked(g)
      /\ g.states \in Seq(States) /\ g.transitions \in SUBSET Transitions
      /\ g.rtk \in SUBSET Records /\ g.headings \in SUBSET Records
  BY DEF Sound, FactorGraphs
<1>2. L \in Nat /\ MaxStates \in Nat \ {0} /\ d \in Nat \ {0} /\ L = MaxStates + d
  BY <1>1, FgoAssumption
<1>3. \A i \in 1 .. MaxStates : i + d \in 1 .. L
  BY <1>2
<1>4. g.states[d + 1].index = d
  <2>1. d + 1 \in 1 .. L
    BY <1>2
  <2> QED BY <2>1, <1>1, <1>2 DEF Numbered
<1>5. h = [states |-> new, transitions |-> ts, rtk |-> Kept(g.rtk, d),
           headings |-> Kept(g.headings, d)]
  BY <1>4 DEF RebuildActiveWindow
<1>6. /\ h.states = new /\ h.transitions = ts
      /\ h.rtk = Kept(g.rtk, d) /\ h.headings = Kept(g.headings, d)
  <2> HIDE DEF h, new, ts
  <2> QED BY <1>5
<1>7. \A i \in 1 .. MaxStates : new[i] = [g.states[i + d] EXCEPT !.index = i - 1]
  OBVIOUS
<1>8. \A i \in 1 .. MaxStates :
         /\ new[i] \in States /\ new[i].index = i - 1
         /\ new[i].stamp = g.states[i + d].stamp
  <2> SUFFICES ASSUME NEW i \in 1 .. MaxStates
               PROVE  /\ new[i] \in States /\ new[i].index = i - 1
                      /\ new[i].stamp = g.states[i + d].stamp
    OBVIOUS
  <2>1. g.states[i + d] \in States
    BY <1>1, <1>3
  <2>2. i - 1 \in Nat /\ new[i] = [g.states[i + d] EXCEPT !.index = i - 1]
    BY <1>7
  <2> HIDE DEF new
  <2> QED BY <2>1, <2>2 DEF States
<1>9. new \in Seq(States) /\ Len(new) = MaxStates
  <2>1. new \in [1 .. MaxStates -> States]
    <3> HIDE DEF new
    <3>1. DOMAIN new = 1 .. MaxStates /\ new = [i \in 1 .. MaxStates |-> new[i]]
      BY DEF new
    <3> QED BY <3>1, <1>8
  <2> HIDE DEF new
  <2> QED BY <2>1, <1>2, SeqDef, LenProperties
<1> HIDE DEF h, new, ts, d, L
<1>10. Numbered(h)
  BY <1>6, <1>8, <1>9 DEF Numbered
<1>11. /\ h.rtk \in SUBSET Records /\ h.headings \in SUBSET Records
  BY <1>1, <1>2, <1>6, KeptSound
<1>12. Recorded(h)
  <2> SUFFICES ASSUME NEW r \in h.rtk \cup h.headings
               PROVE  r.index + 1 \in 1 .. MaxStates /\ new[r.index + 1].stamp = r.of
    BY <1>6, <1>9 DEF Recorded
  <2>1. /\ r \in Records
        /\ \E q \in g.rtk \cup g.headings : q.index = r.index + d /\ q.of = r.of
    BY <1>1, <1>2, <1>6, KeptSound
  <2>2. PICK q \in g.rtk \cup g.headings : q.index = r.index + d /\ q.of = r.of
    BY <2>1
  <2>3. q.index + 1 \in 1 .. L /\ g.states[q.index + 1].stamp = q.of
    BY <1>1 DEF Recorded, L
  <2>4. r.index \in Nat
    BY <2>1 DEF Records
  <2>5. r.index + 1 \in 1 .. MaxStates /\ q.index + 1 = (r.index + 1) + d
    <3>1. (r.index + d) + 1 \in 1 .. L
      BY <2>2, <2>3
    <3>2. (r.index + d) + 1 = (r.index + 1) + d /\ r.index + 1 \in 1 .. MaxStates
      BY <3>1, <2>4, <1>2, SMTT(30)
    <3> QED BY <3>2, <2>2
  <2> QED BY <2>2, <2>3, <2>5, <1>8
<1>13. ASSUME NEW u \in ts
       PROVE  /\ u \in Transitions
              /\ \E t \in g.transitions :
                   /\ t.from = u.from + d /\ t.to = u.to + d
                   /\ t.stamp = u.stamp /\ t.since = u.since /\ t.until = u.until
  <2>1. PICK t \in g.transitions : /\ t.from >= d /\ t.to >= d
                                   /\ u = [t EXCEPT !.from = t.from - d, !.to = t.to - d]
    BY DEF ts
  <2>2. t \in Transitions
    BY <1>1
  <2>3. t.from \in Nat /\ t.to \in Nat
    BY <2>2 DEF Transitions
  <2>4. t.from - d \in Nat /\ t.to - d \in Nat
    BY <2>1, <2>3, <1>2
  <2>5. u = [from |-> t.from - d, to |-> t.to - d, stamp |-> t.stamp,
            since |-> t.since, until |-> t.until]
    BY <2>1, <2>2 DEF Transitions
  <2>6. /\ u.from = t.from - d /\ u.to = t.to - d
        /\ u.stamp = t.stamp /\ u.since = t.since /\ u.until = t.until
    BY <2>5
  <2>7. u \in Transitions
    BY <2>2, <2>4, <2>5 DEF Transitions
  <2>8. t.from = u.from + d /\ t.to = u.to + d
    BY <2>3, <2>6, <1>2
  <2> QED BY <2>6, <2>7, <2>8
<1>14. Linked(h)
  <2> SUFFICES ASSUME NEW u \in ts
               PROVE  /\ u.to = u.from + 1 /\ u.from + 2 \in 1 .. MaxStates
                      /\ new[u.from + 2].stamp = u.stamp
                      /\ u.until # 0 => Forward(u)
    BY <1>6, <1>9 DEF Linked
  <2>1. PICK t \in g.transitions :
          /\ t.from = u.from + d /\ t.to = u.to + d
          /\ t.stamp = u.stamp /\ t.since = u.since /\ t.until = u.until
    BY <1>13
  <2>2. /\ t.to = t.from + 1 /\ t.from + 2 \in 1 .. L
        /\ g.states[t.from + 2].stamp = t.stamp
        /\ t.until # 0 => Forward(t)
    BY <1>1 DEF Linked, L
  <2>3. u.from \in Nat /\ u.to \in Nat
    BY <1>13 DEF Transitions
  <2>4. /\ u.to = u.from + 1
        /\ u.from + 1 \in 1 .. MaxStates /\ u.from + 2 \in 1 .. MaxStates
        /\ (u.from + 1) + d = t.from + 1 /\ (u.from + 2) + d = t.from + 2
    <3>1. u.to + d = (u.from + d) + 1 /\ (u.from + d) + 2 \in 1 .. L
      BY <2>1, <2>2
    <3>2. d \in Nat /\ MaxStates \in Nat /\ L \in Nat /\ L = MaxStates + d
      BY <1>2
    <3>3. /\ u.to = u.from + 1
          /\ u.from + 1 \in 1 .. MaxStates /\ u.from + 2 \in 1 .. MaxStates
          /\ (u.from + 1) + d = (u.from + d) + 1 /\ (u.from + 2) + d = (u.from + d) + 2
      <4> DEFINE a == u.from
                 b == u.to
                 n == MaxStates
      <4>1. /\ a \in Nat /\ b \in Nat /\ d \in Nat /\ n \in Nat /\ L = n + d
            /\ b + d = (a + d) + 1 /\ (a + d) + 2 \in 1 .. L
        BY <3>1, <3>2, <2>3
      <4> HIDE DEF a, b, n
      <4>2. b = a + 1 /\ a + 1 \in 1 .. n /\ a + 2 \in 1 .. n
        BY <4>1
      <4>3. (a + 1) + d = (a + d) + 1 /\ (a + 2) + d = (a + d) + 2
        BY <4>1
      <4> QED BY <4>2, <4>3 DEF a, b, n
    <3> QED BY <3>3, <2>1
  <2>5. new[u.from + 2].stamp = g.states[t.from + 2].stamp
    BY <2>4, <1>8
  <2>6. u.until # 0 => Forward(u)
    BY <2>1, <2>2 DEF Forward
  <2> QED BY <2>1, <2>2, <2>4, <2>5, <2>6
<1>15. h \in FactorGraphs
  <2>1. ts \in SUBSET Transitions
    BY <1>13
  <2> QED BY <2>1, <1>5, <1>6, <1>9, <1>11, GraphType
<1>16. MaxStates \in 1 .. MaxStates /\ MaxStates + d = L
  BY <1>2
<1>17. /\ Sound(h) /\ Len(h.states) = MaxStates
       /\ h.states[MaxStates].stamp = g.states[Len(g.states)].stamp
  BY <1>6, <1>8, <1>9, <1>10, <1>12, <1>14, <1>15, <1>16 DEF Sound, L
<1>18. ASSUME NEW t \in g.transitions, t.from >= d
       PROVE  \E u \in ts : u.from = t.from - d /\ u.until = t.until
  <2>1. t \in Transitions /\ t.to = t.from + 1
    BY <1>1 DEF Linked
  <2>2. t.from \in Nat /\ t.to \in Nat /\ t.to >= d
    BY <2>1, <1>2, <1>18 DEF Transitions
  <2> DEFINE u == [t EXCEPT !.from = t.from - d, !.to = t.to - d]
  <2>3. u.from = t.from - d /\ u.until = t.until
    BY <2>1 DEF Transitions
  <2>4. u \in ts
    BY <2>2, <1>18 DEF ts
  <2> HIDE DEF u
  <2> QED BY <2>3, <2>4
<1>19. Shifted(g.transitions, ts, d)
  BY <1>13, <1>18 DEF Shifted
<1> QED BY <1>6, <1>17, <1>19 DEF h, d, L

(* The wheel motions of transitions each start where the one before ended,  *)
(* and the last one ended at the sample p.                                  *)
Driving(ts) == {t \in ts : t.until # 0}

Follows(ts, t, u) ==
  t.from < u.from /\ \A v \in Driving(ts) : v.from <= t.from \/ u.from <= v.from

Joined(ts, p) ==
  /\ p = 0 => Driving(ts) = {}
  /\ \A t \in Driving(ts) : (\A v \in Driving(ts) : v.from <= t.from) => t.until = p
  /\ \A t, u \in Driving(ts) : Follows(ts, t, u) => t.until = u.since

(* A newer transition may only go on from p. *)
LEMMA AddedJoined ==
  ASSUME NEW ts \in SUBSET Transitions, NEW p, NEW t \in Transitions,
         Joined(ts, p), \A u \in ts : u.from < t.from,
         t.until # 0 => p # 0 /\ t.since = p
  PROVE  Joined(ts \cup {t}, IF t.until # 0 THEN t.until ELSE p)
<1> DEFINE h == ts \cup {t}
<1>1. \A u \in h : u.from \in Nat
  BY DEF Transitions
<1>2. CASE t.until = 0
  <2>1. Driving(h) = Driving(ts)
    BY <1>2 DEF Driving
  <2> QED BY <2>1, <1>2 DEF Joined, Follows
<1>3. CASE t.until # 0
  <2>1. /\ Driving(h) = Driving(ts) \cup {t} /\ Driving(ts) \subseteq ts
        /\ t.from \in Nat /\ \A v \in Driving(ts) : v.from \in Nat /\ v.from < t.from
    BY <1>1, <1>3 DEF Driving
  <2> HIDE DEF h
  <2>2. ASSUME NEW u \in Driving(h), \A v \in Driving(h) : v.from <= u.from
        PROVE  u = t
    BY <2>1, <2>2
  <2>3. ASSUME NEW u \in Driving(h), NEW w \in Driving(h), Follows(h, u, w)
        PROVE  u.until = w.since
    <3>1. u \in Driving(ts)
      BY <2>1, <2>3 DEF Follows
    <3>2. CASE w = t
      <4>1. \A v \in Driving(ts) : v.from <= u.from
        BY <2>1, <2>3, <3>1, <3>2 DEF Follows
      <4> QED BY <4>1, <3>1, <3>2, <1>3 DEF Joined
    <3>3. CASE w \in Driving(ts)
      <4>1. Follows(ts, u, w)
        BY <2>1, <2>3 DEF Follows
      <4> QED BY <4>1, <3>1, <3>3 DEF Joined
    <3> QED BY <2>1, <3>2, <3>3
  <2> QED BY <2>1, <2>2, <2>3, <1>3 DEF Joined, h
<1> QED BY <1>2, <1>3

LEMMA RebuiltJoined ==
  ASSUME NEW ts \in SUBSET Transitions, NEW us, NEW p, NEW d \in Nat,
         Joined(ts, p), Shifted(ts, us, d)
  PROVE  Joined(us, p)
<1>1. ASSUME NEW u \in Driving(us)
      PROVE  /\ u.from \in Nat
             /\ \E t \in Driving(ts) : /\ t.from \in Nat /\ t.from = u.from + d
                                       /\ t.since = u.since /\ t.until = u.until
  BY DEF Driving, Shifted, Transitions
<1>2. ASSUME NEW t \in Driving(ts)
      PROVE  /\ t.from \in Nat
             /\ t.from >= d => \E u \in Driving(us) : u.from = t.from - d
  BY DEF Driving, Shifted, Transitions
<1>3. p = 0 => Driving(us) = {}
  BY <1>1 DEF Joined
<1>4. ASSUME NEW u \in Driving(us), \A v \in Driving(us) : v.from <= u.from
      PROVE  u.until = p
  <2>1. PICK t \in Driving(ts) : t.from \in Nat /\ t.from = u.from + d /\ t.until = u.until
    BY <1>1
  <2>2. ASSUME NEW v \in Driving(ts) PROVE v.from <= t.from
    <3>1. CASE v.from < d
      BY <3>1, <1>1, <1>2, <2>1
    <3>2. CASE v.from >= d
      <4>1. PICK w \in Driving(us) : w.from = v.from - d
        BY <3>2, <1>2
      <4> QED BY <4>1, <1>1, <1>2, <1>4, <2>1
    <3> QED BY <3>1, <3>2, <1>2
  <2> QED BY <2>1, <2>2 DEF Joined
<1>5. ASSUME NEW u \in Driving(us), NEW w \in Driving(us), Follows(us, u, w)
      PROVE  u.until = w.since
  <2>1. PICK t \in Driving(ts) : t.from \in Nat /\ t.from = u.from + d /\ t.until = u.until
    BY <1>1
  <2>2. PICK x \in Driving(ts) : x.from \in Nat /\ x.from = w.from + d /\ x.since = w.since
    BY <1>1
  <2>3. t.from < x.from
    BY <1>1, <1>5, <2>1, <2>2 DEF Follows
  <2>4. ASSUME NEW v \in Driving(ts) PROVE v.from <= t.from \/ x.from <= v.from
    <3>1. CASE v.from < d
      BY <3>1, <1>1, <1>2, <2>1
    <3>2. CASE v.from >= d
      <4>1. PICK y \in Driving(us) : y.from = v.from - d
        BY <3>2, <1>2
      <4>2. y.from <= u.from \/ w.from <= y.from
        BY <1>5 DEF Follows
      <4> QED BY <4>1, <4>2, <1>1, <1>2, <2>1, <2>2
    <3> QED BY <3>1, <3>2, <1>2
  <2> QED BY <2>1, <2>2, <2>3, <2>4 DEF Joined, Follows
<1> QED BY <1>3, <1>4, <1>5 DEF Joined

(* A factor on the newest state stands where it should. *)
LEMMA NewestRecord ==
  ASSUME NEW g, Sound(g), g.states # <<>>
  PROVE  /\ Newest(g) \in Records
         /\ Newest(g).index + 1 = Len(g.states) /\ Len(g.states) \in 1 .. Len(g.states)
         /\ g.states[Len(g.states)].stamp = Newest(g).of
<1>1. g.states \in Seq(States) /\ Numbered(g)
  BY DEF Sound, FactorGraphs
<1>2. Len(g.states) \in Nat \ {0} /\ Len(g.states) \in 1 .. Len(g.states)
  BY <1>1, EmptySeq
<1>3. g.states[Len(g.states)] \in States
  BY <1>1, <1>2
<1>4. g.states[Len(g.states)].index = Len(g.states) - 1
  BY <1>1, <1>2 DEF Numbered
<1> QED BY <1>2, <1>3, <1>4 DEF Newest, Records, States

LEMMA RtkSound ==
  ASSUME NEW g, Sound(g), g.states # <<>>
  PROVE  /\ Sound(WithRtk(g)) /\ WithRtk(g).states = g.states
         /\ WithRtk(g).transitions = g.transitions
         /\ Newest(WithRtk(g)) \in WithRtk(g).rtk
<1> DEFINE h == WithRtk(g)
<1>1. g \in FactorGraphs /\ Numbered(g) /\ Recorded(g) /\ Linked(g)
  BY DEF Sound
<1>2. /\ h \in FactorGraphs /\ h.states = g.states /\ h.transitions = g.transitions
      /\ h.rtk = g.rtk \cup {Newest(g)} /\ h.headings = g.headings
  BY <1>1, NewestRecord DEF WithRtk, FactorGraphs
<1> HIDE DEF h
<1>3. Numbered(h) /\ Linked(h)
  BY <1>1, <1>2 DEF Numbered, Linked
<1>4. Recorded(h)
  BY <1>1, <1>2, NewestRecord DEF Recorded
<1>5. /\ Sound(h) /\ h.states = g.states /\ Newest(h) \in h.rtk
      /\ h.transitions = g.transitions
  BY <1>2, <1>3, <1>4 DEF Sound, Newest
<1> QED BY <1>5 DEF h

LEMMA HeadingSound ==
  ASSUME NEW g, Sound(g), g.states # <<>>
  PROVE  /\ Sound(WithHeading(g)) /\ WithHeading(g).states = g.states
         /\ WithHeading(g).rtk = g.rtk /\ WithHeading(g).transitions = g.transitions
<1> DEFINE h == WithHeading(g)
<1>1. g \in FactorGraphs /\ Numbered(g) /\ Recorded(g) /\ Linked(g)
  BY DEF Sound
<1>2. /\ h \in FactorGraphs /\ h.states = g.states /\ h.transitions = g.transitions
      /\ h.rtk = g.rtk /\ h.headings = g.headings \cup {Newest(g)}
  BY <1>1, NewestRecord DEF WithHeading, FactorGraphs
<1> HIDE DEF h
<1>3. Numbered(h) /\ Linked(h)
  BY <1>1, <1>2 DEF Numbered, Linked
<1>4. Recorded(h)
  BY <1>1, <1>2, NewestRecord DEF Recorded
<1>5. /\ Sound(h) /\ h.states = g.states /\ h.rtk = g.rtk
      /\ h.transitions = g.transitions
  BY <1>2, <1>3, <1>4 DEF Sound
<1> QED BY <1>5 DEF h
--------------------------------------------------------------------------------
(* What makes the properties inductive: the graph is sound and its newest   *)
(* state is the last odometry taken; its wheel motions join up to the sample *)
(* used last; every sample older than that one lies farther from the last    *)
(* odometry, so none of them is ever the closest again; and the machine's    *)
(* count of strong samples is that of the strong ticks there were.           *)
Keyed ==
  IF graph.states = <<>> THEN previous_wheel = 0
  ELSE graph.states[Len(graph.states)].stamp = last_lio

Overtaken(samples, p, stamp) ==
  p # 0 => /\ \E s \in samples : p <= s
           /\ \A s \in samples : s < p => p \in samples /\ s + p <= 2 * stamp

Earned ==
  /\ machine.mode # "Recovery" /\ machine.strong = run
  /\ LockIsEarned

IInv ==
  /\ TypeOK
  /\ Sound(graph)
  /\ Keyed
  /\ Joined(graph.transitions, previous_wheel)
  /\ Overtaken(wheels, previous_wheel, last_lio)
  /\ Earned
  /\ anchored \/ anchor_count < AnchorSamples

(* TimestampedBuffer::add: a newer sample overtakes none that counts. *)
LEMMA WheelOvertaken ==
  ASSUME NEW samples \in SUBSET Nat, NEW t \in Nat, NEW p \in Nat, NEW stamp \in Nat,
         \A s \in samples : s <= t, Overtaken(samples, p, stamp)
  PROVE  Overtaken({s \in samples \cup {t} : t - s <= WheelAge}, p, stamp)
<1> DEFINE kept == {s \in samples \cup {t} : t - s <= WheelAge}
<1>1. WheelAge \in Nat
  BY FgoAssumption
<1> SUFFICES ASSUME p # 0
             PROVE  /\ \E s \in kept : p <= s
                    /\ \A s \in kept : s < p => p \in kept /\ s + p <= 2 * stamp
  BY DEF Overtaken
<1>2. PICK q \in samples : p <= q
  BY DEF Overtaken
<1>3. p <= t /\ t \in kept
  BY <1>1, <1>2
<1>4. ASSUME NEW s \in kept, s < p PROVE p \in kept /\ s + p <= 2 * stamp
  <2>1. s \in samples /\ t - s <= WheelAge
    BY <1>3, <1>4
  <2>2. p \in samples /\ s + p <= 2 * stamp
    BY <1>4, <2>1 DEF Overtaken
  <2>3. t - p <= WheelAge
    BY <1>1, <1>4, <2>1
  <2> QED BY <2>2, <2>3
<1> QED BY <1>3, <1>4

(* TimestampedBuffer::closest: what the sample found tells of the others.   *)
LEMMA ClosestSample ==
  ASSUME wheels \subseteq Nat \ {0}, NEW x \in Nat, NEW wheel, wheel # 0,
         IsClosest(wheel, x)
  PROVE  /\ wheel \in wheels /\ wheel \in Nat /\ Distance(wheel, x) <= WheelTolerance
         /\ \A s \in wheels : /\ s < wheel => s + wheel <= 2 * x
                              /\ wheel < s => 2 * x < wheel + s
<1>1. /\ wheel \in Near(x)
      /\ \A s \in Near(x) : \/ Distance(wheel, x) < Distance(s, x)
                            \/ Distance(wheel, x) = Distance(s, x) /\ wheel >= s
  BY DEF IsClosest
<1>2. /\ wheel \in wheels /\ wheel \in Nat /\ Distance(wheel, x) <= WheelTolerance
      /\ WheelTolerance \in Nat
  BY <1>1, FgoAssumption DEF Near
<1>3. ASSUME NEW s \in wheels
      PROVE  /\ s < wheel => s + wheel <= 2 * x
             /\ wheel < s => 2 * x < wheel + s
  <2>1. s \in Nat
    OBVIOUS
  <2>2. \/ Distance(wheel, x) < Distance(s, x)
        \/ Distance(wheel, x) = Distance(s, x) /\ wheel >= s
    <3>1. CASE s \in Near(x)
      BY <3>1, <1>1
    <3>2. CASE s \notin Near(x)
      <4>1. ~(Distance(s, x) <= WheelTolerance) /\ Distance(s, x) \in Int
        BY <3>2, <2>1 DEF Near, Distance
      <4>2. Distance(wheel, x) \in Int
        BY <1>2 DEF Distance
      <4> QED BY <4>1, <4>2, <1>2
    <3> QED BY <3>1, <3>2
  <2> QED BY <2>1, <2>2, <1>2 DEF Distance
<1> QED BY <1>2, <1>3

(* For a newer odometry the closest sample is not older than the one used    *)
(* last.                                                                     *)
LEMMA ClosestMovesOn ==
  ASSUME wheels \subseteq Nat \ {0}, NEW x \in Nat, NEW y \in Nat, y < x,
         NEW p \in Nat, Overtaken(wheels, p, y),
         NEW wheel \in Nat, IsClosest(wheel, x)
  PROVE  /\ wheel # 0 => p <= wheel
         /\ Overtaken(wheels, IF wheel # 0 THEN wheel ELSE p, x)
<1>1. CASE wheel = 0
  BY <1>1 DEF Overtaken
<1>2. CASE wheel # 0
  <2>1. /\ wheel \in wheels
        /\ \A s \in wheels : /\ s < wheel => s + wheel <= 2 * x
                             /\ wheel < s => 2 * x < wheel + s
    BY <1>2, ClosestSample
  <2>2. p <= wheel
    <3> SUFFICES ASSUME wheel < p PROVE FALSE
      OBVIOUS
    <3>1. p \in wheels /\ wheel + p <= 2 * y
      BY <2>1 DEF Overtaken
    <3>2. 2 * x < wheel + p
      BY <2>1, <3>1
    <3> QED BY <3>1, <3>2
  <2>3. Overtaken(wheels, wheel, x)
    BY <2>1 DEF Overtaken
  <2> QED BY <2>2, <2>3, <1>2
<1> QED BY <1>1, <1>2

(* The keyframe part of onTimer. *)
LEMMA KeyframeStep ==
  ASSUME IInv, lio # 0, NEW wheel \in wheels \cup {0}, IsClosest(wheel, lio),
         KeyframeVars(wheel)
  PROVE  LET g == WithKeyframe(wheel) IN
         /\ Sound(g) /\ g.states # <<>> /\ Len(g.states) <= MaxStates
         /\ g.states[Len(g.states)].stamp = last_lio'
         /\ Joined(g.transitions, previous_wheel')
         /\ Overtaken(wheels, previous_wheel', last_lio')
         /\ last_lio' \in 0 .. MaxStamp /\ previous_wheel' \in WheelStamps \cup {0}
<1> DEFINE g == WithKeyframe(wheel)
           Goal(h) == /\ Sound(h) /\ h.states # <<>> /\ Len(h.states) <= MaxStates
                      /\ h.states[Len(h.states)].stamp = last_lio'
                      /\ Joined(h.transitions, previous_wheel')
                      /\ Overtaken(wheels, previous_wheel', last_lio')
                      /\ last_lio' \in 0 .. MaxStamp
                      /\ previous_wheel' \in WheelStamps \cup {0}
<1>1. /\ Sound(graph) /\ Keyed /\ lio \in 1 .. MaxStamp /\ lio \in 0 .. MaxStamp
      /\ last_lio \in 0 .. MaxStamp /\ previous_wheel \in WheelStamps \cup {0}
      /\ Joined(graph.transitions, previous_wheel)
      /\ Overtaken(wheels, previous_wheel, last_lio)
      /\ Len(graph.states) <= MaxStates
      /\ MaxStates \in Nat /\ MaxStates > 1 /\ wheel \in WheelStamps \cup {0}
      /\ wheels \subseteq Nat \ {0} /\ wheel \in Nat /\ previous_wheel \in Nat
      /\ lio \in Nat /\ last_lio \in Nat
  BY FgoAssumption DEF IInv, TypeOK
<1>2. graph.states \in Seq(States) /\ graph.transitions \in SUBSET Transitions
  BY <1>1 DEF Sound, FactorGraphs
<1>4. CASE graph.states = <<>>
  <2>1. g = AddInitialState(lio) /\ last_lio' = lio /\ previous_wheel' = 0
    BY <1>1, <1>4 DEF WithKeyframe, KeyframeVars, Keyed
  <2>2. /\ Sound(g) /\ Len(g.states) = 1 /\ g.states[1].stamp = lio
        /\ g.transitions = {}
    BY <2>1, <1>1, InitialSound
  <2> HIDE DEF g
  <2>3. g.states # <<>>
    BY <2>2
  <2>4. Joined(g.transitions, 0) /\ Overtaken(wheels, 0, lio)
    BY <2>2 DEF Joined, Driving, Overtaken
  <2>5. Goal(g)
    BY <2>1, <2>2, <2>3, <2>4, <1>1
  <2> QED BY <2>5 DEF g
<1>5. CASE graph.states # <<>> /\ lio > last_lio
  <2> DEFINE driven == wheel # 0 /\ previous_wheel # 0
             since == IF driven THEN previous_wheel ELSE 0
             until == IF driven THEN wheel ELSE 0
             h == AddFastLioBetween(graph, lio, since, until)
             p == WheelReference(wheel)
  <2>1. /\ g = PruneIfNeeded(h) /\ last_lio' = lio
        /\ previous_wheel' = p
    BY <1>5 DEF WithKeyframe, KeyframeVars
  <2>2. /\ wheel # 0 => previous_wheel <= wheel /\ Distance(wheel, lio) <= WheelTolerance
        /\ Overtaken(wheels, p, lio)
    <3>1. last_lio < lio
      BY <1>1, <1>5
    <3>2. /\ wheel # 0 => previous_wheel <= wheel
          /\ Overtaken(wheels, IF wheel # 0 THEN wheel ELSE previous_wheel, lio)
      BY <3>1, <1>1, ClosestMovesOn
    <3> QED BY <3>2, <1>1, ClosestSample DEF WheelReference
  <2>3. /\ since \in WheelStamps \cup {0} /\ until \in WheelStamps \cup {0}
        /\ until # 0 => since <= until /\ Distance(until, lio) <= WheelTolerance
        /\ until # 0 => previous_wheel # 0 /\ since = previous_wheel /\ until = wheel
        /\ until = 0 => wheel = 0 \/ previous_wheel = 0
        /\ p \in WheelStamps \cup {0}
    BY <2>2, <1>1 DEF WheelReference
  <2>4. p = IF wheel # 0 THEN wheel ELSE previous_wheel
    BY DEF WheelReference
  <2> HIDE DEF since, until, driven, p
  <2>5. /\ Sound(h) /\ Len(h.states) = Len(graph.states) + 1
        /\ h.states[Len(h.states)].stamp = lio
        /\ \E t \in Transitions :
             /\ h.transitions = graph.transitions \cup {t}
             /\ t.since = since /\ t.until = until
             /\ \A u \in graph.transitions : u.from < t.from
    <3>1. /\ Sound(graph) /\ graph.states # <<>> /\ lio \in 0 .. MaxStamp
          /\ since \in WheelStamps \cup {0} /\ until \in WheelStamps \cup {0}
          /\ until # 0 => since <= until /\ Distance(until, lio) <= WheelTolerance
      BY <2>3, <1>1, <1>5
    <3> HIDE DEF g, Goal, h
    <3>2. LET k == AddFastLioBetween(graph, lio, since, until) IN
          /\ Sound(k)
          /\ Len(k.states) = Len(graph.states) + 1
          /\ k.states[Len(k.states)].stamp = lio
          /\ \E t \in Transitions :
               /\ k.transitions = graph.transitions \cup {t}
               /\ t.since = since /\ t.until = until
               /\ \A u \in graph.transitions : u.from < t.from
      BY <3>1, AddedSound, SMTT(30)
    <3> QED BY <3>2 DEF h
  <2> HIDE DEF g, h
  <2>6. Joined(h.transitions, p)
    <3>1. PICK t \in Transitions :
            /\ h.transitions = graph.transitions \cup {t}
            /\ t.since = since /\ t.until = until
            /\ \A u \in graph.transitions : u.from < t.from
      BY <2>5
    <3>2. Joined(graph.transitions \cup {t}, IF t.until # 0 THEN t.until ELSE previous_wheel)
      BY <3>1, <2>3, <1>1, <1>2, AddedJoined
    <3>3. CASE until # 0
      BY <3>1, <3>2, <3>3, <2>3, <2>4
    <3>4. CASE until = 0 /\ wheel = 0
      BY <3>1, <3>2, <3>4, <2>4
    <3>5. CASE until = 0 /\ previous_wheel = 0
      <4>1. Driving(h.transitions) = {}
        BY <3>1, <3>2, <3>5 DEF Joined
      <4> QED BY <4>1 DEF Joined
    <3> QED BY <3>3, <3>4, <3>5, <2>3
  <2>7. Len(h.states) \in Nat \ {0}
    <3>1. Len(graph.states) \in Nat
      BY <1>2
    <3> QED BY <3>1, <2>5
  <2>8. /\ Sound(g) /\ Len(g.states) <= MaxStates /\ Len(g.states) # 0
        /\ g.states[Len(g.states)].stamp = lio /\ Joined(g.transitions, p)
    <3>1. CASE Len(h.states) <= MaxStates
      BY <3>1, <2>1, <2>5, <2>6, <2>7 DEF PruneIfNeeded
    <3>2. CASE ~(Len(h.states) <= MaxStates)
      <4>1. Len(h.states) > MaxStates /\ Len(h.states) - MaxStates \in Nat
        BY <3>2, <2>7, <1>1
      <4>2. g = RebuildActiveWindow(h)
        BY <3>2, <2>1 DEF PruneIfNeeded
      <4>3. /\ Sound(g) /\ Len(g.states) = MaxStates
            /\ g.states[MaxStates].stamp = h.states[Len(h.states)].stamp
            /\ Shifted(h.transitions, g.transitions, Len(h.states) - MaxStates)
        BY <4>1, <4>2, <2>5, RebuiltSound
      <4>4. h.transitions \in SUBSET Transitions
        BY <2>5 DEF Sound, FactorGraphs
      <4>5. Joined(g.transitions, p)
        BY <4>1, <4>3, <4>4, <2>6, RebuiltJoined
      <4> QED BY <4>3, <4>5, <2>5, <1>1
    <3> QED BY <3>1, <3>2
  <2>9. g.states # <<>>
    BY <2>8
  <2>10. Goal(g)
    BY <2>1, <2>2, <2>3, <2>8, <2>9, <1>1
  <2> QED BY <2>10 DEF g
<1>6. CASE graph.states # <<>> /\ ~(lio > last_lio)
  <2>1. g = graph /\ UNCHANGED <<last_lio, previous_wheel>>
    BY <1>6 DEF WithKeyframe, KeyframeVars
  <2> HIDE DEF g
  <2>2. Goal(g)
    BY <2>1, <1>1, <1>6 DEF Keyed
  <2> QED BY <2>2 DEF g
<1> QED BY <1>4, <1>5, <1>6

(* A sample read by the state machine. *)
Machines == [mode : Modes, strong : 0 .. MinStrong, invalid : 0 .. MaxInvalid]

LEMMA UpdateStep ==
  ASSUME IInv, NEW gate \in GateModes
  PROVE  LET m == Update(machine, gate) IN
         /\ m \in Machines
         /\ gate # "Strong" => m.mode \notin {"Locked", "Recovery"} /\ m.strong = 0
         /\ gate = "Strong" =>
              /\ m.strong = Capped(run + 1, MinStrong)
              /\ m.mode \in {"Recovery", "Locked"} <=> m.strong >= MinStrong
<1> DEFINE m == Update(machine, gate)
<1>1. /\ machine \in Machines /\ run \in 0 .. MinStrong
      /\ MinStrong \in Nat \ {0} /\ MaxInvalid \in Nat \ {0}
      /\ machine.mode # "Recovery" /\ machine.strong = run
      /\ machine.mode = "Locked" <=> run >= MinStrong
  BY FgoAssumption DEF IInv, TypeOK, Earned, LockIsEarned, Machines
<1>2. /\ machine = [mode |-> machine.mode, strong |-> machine.strong,
                    invalid |-> machine.invalid]
      /\ machine.mode \in Modes /\ machine.strong \in 0 .. MinStrong
      /\ machine.invalid \in 0 .. MaxInvalid
  BY <1>1 DEF Machines
<1>3. LosesTrust(machine.mode) \in Modes \ {"Locked", "Recovery"}
  BY <1>2 DEF LosesTrust, Modes
<1>4. 0 \in 0 .. MinStrong /\ 0 \in 0 .. MaxInvalid
  BY <1>1
<1>5. CASE gate = "Strong"
  <2>1. m = AcceptStrong(machine)
    BY <1>5 DEF Update
  <2>2. Capped(machine.strong + 1, MinStrong) \in 0 .. MinStrong
    BY <1>1, <1>2 DEF Capped
  <2>3. run >= MinStrong => Capped(run + 1, MinStrong) >= MinStrong
    BY <1>1 DEF Capped
  <2>4. /\ m.mode \in Modes /\ m.strong = Capped(run + 1, MinStrong)
        /\ m.invalid = 0
        /\ m.mode \in {"Recovery", "Locked"} <=> m.strong >= MinStrong
        /\ m = [mode |-> m.mode, strong |-> m.strong, invalid |-> m.invalid]
    BY <2>1, <2>3, <1>1, <1>2 DEF AcceptStrong, Modes
  <2> HIDE DEF m
  <2>5. m \in Machines
    BY <2>2, <2>4, <1>1, <1>4 DEF Machines
  <2> QED BY <2>4, <2>5, <1>5 DEF m
<1>6. CASE gate \in {"Weak", "Diagnostic"}
  <2>1. m = AcceptWeak(machine)
    BY <1>6 DEF Update
  <2>2. /\ m.mode = LosesTrust(machine.mode) /\ m.strong = 0
        /\ m = [mode |-> LosesTrust(machine.mode), strong |-> 0,
                invalid |-> machine.invalid]
    BY <2>1, <1>2 DEF AcceptWeak
  <2> HIDE DEF m
  <2>3. m \in Machines
    BY <2>2, <1>2, <1>3, <1>4 DEF Machines
  <2> QED BY <2>2, <2>3, <1>3, <1>6 DEF m
<1>7. CASE gate = "Rejected"
  <2>1. m = AcceptRejected(machine)
    BY <1>7 DEF Update
  <2>2. Capped(machine.invalid + 1, MaxInvalid) \in 0 .. MaxInvalid
    BY <1>1, <1>2 DEF Capped
  <2>3. /\ m.mode \in Modes \ {"Locked", "Recovery"} /\ m.strong = 0
        /\ m.invalid = Capped(machine.invalid + 1, MaxInvalid)
        /\ m = [mode |-> m.mode, strong |-> m.strong, invalid |-> m.invalid]
    BY <2>1, <1>3 DEF AcceptRejected, Modes
  <2> HIDE DEF m
  <2>4. m \in Machines
    BY <2>2, <2>3, <1>4 DEF Machines
  <2> QED BY <2>3, <2>4, <1>7 DEF m
<1> QED BY <1>5, <1>6, <1>7 DEF GateModes

(* What the commit makes of the machine. *)
LEMMA CommitStep ==
  ASSUME IInv, NEW wheel \in wheels \cup {0}, NEW gate \in GateModes, NEW heading \in BOOLEAN,
         NEW committed \in BOOLEAN, OnTimer(gate, wheel, heading, committed)
  PROVE  /\ machine' \in Machines /\ machine'.mode # "Recovery"
         /\ run' \in 0 .. MinStrong /\ machine'.strong = run'
         /\ machine'.mode = "Locked" <=> run' >= MinStrong
         /\ machine'.mode = "Locked" => Asked(gate, Update(machine, gate)) /\ committed
<1> DEFINE m == Update(machine, gate)
           asked == Asked(gate, m)
<1>1. /\ m \in Machines
      /\ gate # "Strong" => m.mode \notin {"Locked", "Recovery"} /\ m.strong = 0
      /\ gate = "Strong" =>
           /\ m.strong = Capped(run + 1, MinStrong)
           /\ m.mode \in {"Recovery", "Locked"} <=> m.strong >= MinStrong
  BY UpdateStep
<1>2. /\ machine' = IF ~asked THEN m
                    ELSE IF committed THEN MarkRecoveryCommitted(m)
                    ELSE MarkRecoveryRejected(m)
      /\ run' = IF gate = "Strong" /\ (asked => committed)
                THEN Capped(run + 1, MinStrong) ELSE 0
  BY DEF OnTimer
<1>3. asked <=> gate = "Strong" /\ m.mode \in {"Recovery", "Locked"}
  BY DEF Asked
<1>4. run \in 0 .. MinStrong /\ MinStrong \in Nat \ {0} /\ MaxInvalid \in Nat
  BY FgoAssumption DEF IInv, TypeOK
<1> HIDE DEF m, asked
<1>5. m.mode \in Modes /\ m.strong \in 0 .. MinStrong /\ m.invalid \in 0 .. MaxInvalid
  BY <1>1 DEF Machines
<1>6. Capped(run + 1, MinStrong) \in 0 .. MinStrong
  BY <1>4 DEF Capped
<1>7. CASE ~asked
  <2>1. m.mode \notin {"Recovery", "Locked"} /\ machine' = m
    BY <1>1, <1>2, <1>3, <1>7
  <2>2. run' = IF gate = "Strong" THEN Capped(run + 1, MinStrong) ELSE 0
    BY <1>2, <1>7
  <2> QED BY <2>1, <2>2, <1>1, <1>4, <1>6
<1>8. CASE asked /\ committed
  <2>1. /\ gate = "Strong" /\ m.mode \in {"Recovery", "Locked"}
        /\ machine' = MarkRecoveryCommitted(m) /\ run' = Capped(run + 1, MinStrong)
    BY <1>2, <1>3, <1>8
  <2>2. run' >= MinStrong /\ run' = MinStrong
    <3>1. Capped(run + 1, MinStrong) >= MinStrong
      BY <2>1, <1>1
    <3> QED BY <3>1, <2>1, <1>4, <1>6
  <2>3. CASE m.mode = "Recovery"
    <3>1. machine' = [mode |-> "Locked", strong |-> MinStrong, invalid |-> 0]
      BY <2>1, <2>3 DEF MarkRecoveryCommitted
    <3>2. machine' \in Machines
      BY <3>1, <1>4 DEF Machines, Modes
    <3> QED BY <3>1, <3>2, <2>2, <1>3, <1>4, <1>8 DEF asked, m
  <2>4. CASE m.mode = "Locked"
    <3>1. machine' = m
      BY <2>1, <2>4 DEF MarkRecoveryCommitted
    <3> QED BY <3>1, <2>2, <2>4, <1>1, <1>4, <1>5, <1>8 DEF asked, m
  <2> QED BY <2>1, <2>3, <2>4
<1>9. CASE asked /\ ~committed
  <2>1. machine' = MarkRecoveryRejected(m) /\ run' = 0
    BY <1>2, <1>9
  <2>2. LosesTrust(m.mode) \in Modes \ {"Locked", "Recovery"}
    BY <1>5 DEF LosesTrust, Modes
  <2>3. machine' = [mode |-> LosesTrust(m.mode), strong |-> 0, invalid |-> 0]
    BY <2>1 DEF MarkRecoveryRejected
  <2>4. machine' \in Machines
    BY <2>2, <2>3, <1>4 DEF Machines
  <2> QED BY <2>1, <2>2, <2>3, <2>4, <1>4
<1> QED BY <1>7, <1>8, <1>9

LEMMA TimerStep ==
  ASSUME IInv, NEW wheel \in wheels \cup {0}, NEW gate \in GateModes, NEW heading \in BOOLEAN,
         NEW committed \in BOOLEAN, OnTimer(gate, wheel, heading, committed)
  PROVE  IInv'
<1> DEFINE g == WithKeyframe(wheel)
           asked == Asked(gate, Update(machine, gate))
<1>1. /\ Sound(g) /\ g.states # <<>> /\ Len(g.states) <= MaxStates
      /\ g.states[Len(g.states)].stamp = last_lio'
      /\ Joined(g.transitions, previous_wheel')
      /\ Overtaken(wheels, previous_wheel', last_lio')
      /\ last_lio' \in 0 .. MaxStamp /\ previous_wheel' \in WheelStamps \cup {0}
  BY KeyframeStep DEF OnTimer
<1>2. /\ graph' = IF ~committed THEN g
                  ELSE IF heading THEN WithHeading(WithRtk(g)) ELSE WithRtk(g)
      /\ committed => asked
      /\ wheels' = wheels
  BY DEF OnTimer, inputs
<1> HIDE DEF g, asked
<1>3. /\ Sound(graph') /\ graph'.states = g.states /\ graph'.transitions = g.transitions
      /\ asked /\ committed => Newest(graph') \in graph'.rtk
  <2>1. CASE ~committed
    BY <2>1, <1>1, <1>2
  <2>2. CASE committed
    <3>1. /\ Sound(WithRtk(g)) /\ WithRtk(g).states = g.states
          /\ WithRtk(g).transitions = g.transitions
          /\ Newest(WithRtk(g)) \in WithRtk(g).rtk
      BY <1>1, RtkSound
    <3>2. /\ Sound(WithHeading(WithRtk(g)))
          /\ WithHeading(WithRtk(g)).states = WithRtk(g).states
          /\ WithHeading(WithRtk(g)).rtk = WithRtk(g).rtk
          /\ WithHeading(WithRtk(g)).transitions = WithRtk(g).transitions
      BY <3>1, <1>1, HeadingSound
    <3>3. Newest(WithHeading(WithRtk(g))) = Newest(WithRtk(g))
      BY <3>2 DEF Newest
    <3> QED BY <3>1, <3>2, <3>3, <2>2, <1>2
  <2> QED BY <2>1, <2>2
<1>4. /\ machine' \in Machines /\ machine'.mode # "Recovery"
      /\ run' \in 0 .. MinStrong /\ machine'.strong = run'
      /\ machine'.mode = "Locked" <=> run' >= MinStrong
      /\ machine'.mode = "Locked" => asked /\ committed
  BY CommitStep DEF asked
<1>5. anchored' \in BOOLEAN /\ anchor_count' \in 0 .. AnchorSamples
      /\ (anchored' \/ anchor_count' < AnchorSamples)
  <2>1. /\ anchored \in BOOLEAN /\ anchor_count \in 0 .. AnchorSamples
        /\ anchored \/ anchor_count < AnchorSamples
        /\ AnchorSamples \in Nat \ {0}
    BY FgoAssumption DEF IInv, TypeOK
  <2>2. CASE UNCHANGED <<anchored, anchor_count>>
    BY <2>1, <2>2
  <2>3. CASE ~anchored /\ \E stable \in BOOLEAN : UpdateFrameAnchorBootstrap(heading, stable)
    BY <2>1, <2>3 DEF UpdateFrameAnchorBootstrap
  <2> QED BY <2>2, <2>3 DEF OnTimer, EvaluateLatestRtkGate
<1>6. TypeOK'
  <2>1. graph' \in FactorGraphs /\ Len(graph'.states) <= MaxStates
    BY <1>1, <1>3 DEF Sound
  <2> QED BY <2>1, <1>1, <1>4, <1>5 DEF IInv, TypeOK, OnTimer, inputs, Machines
<1>7. Keyed'
  BY <1>1, <1>3 DEF Keyed
<1>8. Earned'
  BY <1>3, <1>4 DEF Earned, LockIsEarned, Newest
<1>9. Joined(graph.transitions, previous_wheel)' /\ Overtaken(wheels, previous_wheel, last_lio)'
  BY <1>1, <1>2, <1>3 DEF Joined, Driving, Follows, Overtaken
<1> QED BY <1>3, <1>5, <1>6, <1>7, <1>8, <1>9
        DEF IInv, Sound, Numbered, Recorded, Linked, Forward

LEMMA InitIInv == Init => IInv
<1> SUFFICES ASSUME Init PROVE IInv
  OBVIOUS
<1>1. /\ MaxStamp \in Nat /\ MinStrong \in Nat /\ MaxInvalid \in Nat
      /\ AnchorSamples \in Nat \ {0} /\ MaxStates \in Nat
  BY FgoAssumption
<1>2. /\ graph = EmptyGraph /\ graph.states = <<>> /\ graph.transitions = {}
      /\ graph.rtk = {} /\ graph.headings = {} /\ Len(graph.states) = 0
  BY DEF Init, EmptyGraph
<1>3. graph \in FactorGraphs
  <2>1. <<>> \in Seq(States) /\ {} \in SUBSET Transitions /\ {} \in SUBSET Records
    OBVIOUS
  <2> QED BY <2>1, <1>2, GraphType DEF EmptyGraph
<1>4. Sound(graph)
  BY <1>2, <1>3 DEF Sound, Numbered, Recorded, Linked
<1>5. machine \in Machines /\ machine.mode = "LocalOnly" /\ machine.strong = 0 /\ run = 0
  BY <1>1 DEF Init, Machines, Modes
<1>6. TypeOK
  <2>1. nmea \in Qualities /\ valid_fix \in BOOLEAN /\ anchored \in BOOLEAN
    BY DEF Init, Qualities
  <2>3. lio = 0 /\ last_lio = 0 /\ previous_wheel = 0 /\ anchor_count = 0 /\ wheels = {}
    BY DEF Init
  <2>4. /\ lio \in 0 .. MaxStamp /\ anchor_count \in 0 .. AnchorSamples
        /\ last_lio \in 0 .. MaxStamp /\ previous_wheel \in WheelStamps \cup {0}
        /\ wheels \subseteq WheelStamps
    BY <2>3, <1>1
  <2>2. Len(graph.states) <= MaxStates /\ run \in 0 .. MinStrong
    BY <1>1, <1>2, <1>5
  <2> QED BY <2>1, <2>2, <2>4, <1>3, <1>5 DEF TypeOK, Machines
<1>7. Joined(graph.transitions, previous_wheel) /\ Overtaken(wheels, previous_wheel, last_lio)
  BY <1>2 DEF Init, Joined, Driving, Overtaken
<1> QED BY FgoAssumption, <1>1, <1>2, <1>4, <1>5, <1>6, <1>7
        DEF Init, IInv, Keyed, Earned, LockIsEarned

LEMMA NextIInv == IInv /\ [Next]_vars => IInv'
<1> SUFFICES ASSUME IInv, [Next]_vars PROVE IInv'
  OBVIOUS
<1>1. ASSUME UNCHANGED rest, lio' \in 0 .. MaxStamp, nmea' \in Qualities,
             valid_fix' \in BOOLEAN, wheels' \subseteq WheelStamps,
             Overtaken(wheels', previous_wheel, last_lio)
      PROVE  IInv'
  <2>1. /\ TypeOK' /\ Sound(graph)' /\ Keyed' /\ Earned'
        /\ (anchored \/ anchor_count < AnchorSamples)'
    BY <1>1 DEF IInv, TypeOK, Sound, Numbered, Recorded, Linked, Forward, Keyed, Earned,
                LockIsEarned, Newest, rest
  <2>2. Joined(graph.transitions, previous_wheel)'
    BY <1>1 DEF IInv, Joined, Driving, Follows, rest
  <2>3. Overtaken(wheels, previous_wheel, last_lio)'
    BY <1>1 DEF Overtaken, rest
  <2> QED BY <2>1, <2>2, <2>3 DEF IInv
<1>2. /\ lio \in 0 .. MaxStamp /\ nmea \in Qualities /\ valid_fix \in BOOLEAN
      /\ wheels \subseteq WheelStamps /\ Overtaken(wheels, previous_wheel, last_lio)
  BY DEF IInv, TypeOK
<1>3. ASSUME NEW t \in 1 .. MaxStamp, LioCB(t) PROVE IInv'
  <2>1. t \in 0 .. MaxStamp
    BY FgoAssumption
  <2> QED BY <2>1, <1>1, <1>2, <1>3 DEF LioCB
<1>4. ASSUME NEW quality \in Qualities, NmeaCB(quality) PROVE IInv'
  BY <1>1, <1>2, <1>4 DEF NmeaCB
<1>5. ASSUME NEW valid \in BOOLEAN, FixCB(valid) PROVE IInv'
  BY <1>1, <1>2, <1>5 DEF FixCB
<1>8. ASSUME NEW t \in WheelStamps, WheelCB(t) PROVE IInv'
  <2>1. /\ wheels \in SUBSET Nat /\ t \in Nat /\ previous_wheel \in Nat /\ last_lio \in Nat
    BY FgoAssumption DEF IInv, TypeOK
  <2>2. Overtaken(wheels', previous_wheel, last_lio) /\ wheels' \subseteq WheelStamps
    BY <2>1, <1>2, <1>8, WheelOvertaken DEF WheelCB
  <2> QED BY <2>2, <1>1, <1>2, <1>8 DEF WheelCB
<1>6. CASE Timer
  BY <1>6, TimerStep DEF Timer
<1>7. CASE UNCHANGED vars
  BY <1>1, <1>2, <1>7 DEF vars, inputs
<1> QED BY <1>3, <1>4, <1>5, <1>6, <1>7, <1>8 DEF Next

(* The inductive invariant holds in every reachable state. *)
THEOREM Invariance == Spec => []IInv
<1> QED BY InitIInv, NextIInv, PTL DEF Spec

(* The node's variables have their types and the window of fgo_graph.cpp     *)
(* never holds more than max_states_ states.                                 *)
THEOREM TypeCorrect == Spec => []TypeOK
<1>1. IInv => TypeOK
  BY DEF IInv
<1> QED BY <1>1, Invariance, PTL

(* A lock is earned by consecutive strong ticks (state_machine.cpp) and the  *)
(* newest state of the graph carries an RTK factor as long as it lasts.      *)
THEOREM LockEarned == Spec => []LockIsEarned
<1>1. IInv => LockIsEarned
  BY DEF IInv, Earned
<1> QED BY <1>1, Invariance, PTL

(* The window of fgo_graph.cpp keeps every measurement at its state.         *)
THEOREM MeasurementsStay == Spec => []MeasurementsStayWithTheirStates
<1>1. IInv => MeasurementsStayWithTheirStates
  <2> SUFFICES ASSUME IInv PROVE MeasurementsStayWithTheirStates
    OBVIOUS
  <2>1. /\ graph \in FactorGraphs /\ Numbered(graph) /\ Recorded(graph) /\ Linked(graph)
        /\ graph.states \in Seq(States)
    BY DEF IInv, Sound, FactorGraphs
  <2>2. ASSUME NEW r \in graph.rtk \cup graph.headings
        PROVE  \E i \in 1 .. Len(graph.states) :
                 graph.states[i].index = r.index /\ graph.states[i].stamp = r.of
    <3>1. r.index \in Nat
      BY <2>1 DEF FactorGraphs, Records
    <3>2. /\ r.index + 1 \in 1 .. Len(graph.states) /\ (r.index + 1) - 1 = r.index
          /\ graph.states[r.index + 1].stamp = r.of
      BY <3>1, <2>1 DEF Recorded
    <3>3. graph.states[r.index + 1].index = r.index
      BY <3>2, <2>1 DEF Numbered
    <3> QED BY <3>2, <3>3
  <2>3. ASSUME NEW t \in graph.transitions
        PROVE  \E i \in 1 .. Len(graph.states) - 1 :
                 /\ graph.states[i].index = t.from /\ graph.states[i + 1].index = t.to
                 /\ graph.states[i + 1].stamp = t.stamp
    <3>1. t.from \in Nat /\ Len(graph.states) \in Nat
      BY <2>1 DEF FactorGraphs, Transitions
    <3>2. /\ t.to = t.from + 1 /\ t.from + 2 \in 1 .. Len(graph.states)
          /\ graph.states[t.from + 2].stamp = t.stamp
      BY <2>1 DEF Linked
    <3>3. /\ t.from + 1 \in 1 .. Len(graph.states) - 1
          /\ t.from + 1 \in 1 .. Len(graph.states) /\ (t.from + 1) - 1 = t.from
          /\ (t.from + 1) + 1 = t.from + 2 /\ (t.from + 2) - 1 = t.to
      BY <3>1, <3>2
    <3>4. graph.states[t.from + 1].index = t.from /\ graph.states[t.from + 2].index = t.to
      BY <3>2, <3>3, <2>1 DEF Numbered
    <3> QED BY <3>2, <3>3, <3>4
  <2> QED BY <2>2, <2>3 DEF MeasurementsStayWithTheirStates
<1> QED BY <1>1, Invariance, PTL

(* Whatever samples come, stay away or are shared by keyframes, the wheel    *)
(* motions in the window (rtk_fgo_node.cpp, topic_buffers.hpp) are each      *)
(* counted once, forward and up to a sample near their keyframe.             *)
THEOREM WheelMotionsStayJoined == Spec => []WheelMotionsJoin
<1>1. IInv => WheelMotionsJoin
  <2> SUFFICES ASSUME IInv PROVE WheelMotionsJoin
    OBVIOUS
  <2>1. /\ Driven = Driving(graph.transitions) /\ Linked(graph)
        /\ Joined(graph.transitions, previous_wheel)
    BY DEF IInv, Sound, Driven, Driving
  <2>2. ASSUME NEW t \in Driven
        PROVE  t.since <= t.until /\ Distance(t.until, t.stamp) <= WheelTolerance
    BY <2>1 DEF Linked, Forward, Driven
  <2>3. ASSUME NEW t \in Driven, NEW u \in Driven, t.from < u.from,
               \A v \in Driven : v.from <= t.from \/ u.from <= v.from
        PROVE  t.until = u.since
    BY <2>1, <2>3 DEF Joined, Follows
  <2> QED BY <2>2, <2>3 DEF WheelMotionsJoin
<1> QED BY <1>1, Invariance, PTL
--------------------------------------------------------------------------------
(* How many bad ticks the machine is away from having no trust in RTK: the   *)
(* variant of LosesLock.                                                     *)
Trust ==
  CASE machine.mode = "Locked"    -> MaxInvalid + 2
    [] machine.mode = "Degraded"  -> MaxInvalid + 1 - machine.invalid
    [] machine.mode = "Candidate" -> 1
    [] OTHER                      -> 0

(* A tick on a sentence without usable quality is rejected, whatever the     *)
(* fix, the heading and the commit are.                                      *)
LEMMA BadIsRejected ==
  ASSUME IInv, nmea = "bad", Timer
  PROVE  machine' = AcceptRejected(machine)
<1>1. PICK wheel \in wheels \cup {0}, gate \in GateModes, heading \in BOOLEAN,
           committed \in BOOLEAN :
        OnTimer(gate, wheel, heading, committed)
  BY DEF Timer
<1>2. gate = "Rejected"
  BY <1>1 DEF OnTimer, EvaluateLatestRtkGate, EvaluateRtkGate
<1>3. ~Asked(gate, Update(machine, gate)) /\ Update(machine, gate) = AcceptRejected(machine)
  BY <1>2 DEF Asked, Update
<1> QED BY <1>1, <1>3 DEF OnTimer

LEMMA BadTickStep ==
  ASSUME IInv, IInv', nmea = "bad", Timer
  PROVE  /\ Trust \in 0 .. MaxInvalid + 2
         /\ Trust > 0 => Trust' < Trust
         /\ Trust = 0 => Trust' = 0
<1>1. /\ machine.mode \in Modes \ {"Recovery"} /\ machine.invalid \in 0 .. MaxInvalid
      /\ MaxInvalid \in Nat \ {0}
  BY FgoAssumption DEF IInv, TypeOK, Earned
<1>2. Capped(machine.invalid + 1, MaxInvalid) \in 1 .. MaxInvalid
  BY <1>1 DEF Capped
<1>3. /\ machine'.mode = IF machine.mode = "Degraded"
                            /\ Capped(machine.invalid + 1, MaxInvalid) >= MaxInvalid
                         THEN "LocalOnly" ELSE LosesTrust(machine.mode)
      /\ machine'.invalid = Capped(machine.invalid + 1, MaxInvalid)
  BY BadIsRejected DEF AcceptRejected
<1>4. CASE machine.mode \in {"LocalOnly", "Candidate"}
  BY <1>1, <1>3, <1>4 DEF Trust, LosesTrust
<1>5. CASE machine.mode = "Locked"
  BY <1>1, <1>2, <1>3, <1>5 DEF Trust, LosesTrust
<1>6. CASE machine.mode = "Degraded"
  <2>1. Trust = MaxInvalid + 1 - machine.invalid
    BY <1>6 DEF Trust
  <2>2. Trust' = IF machine.invalid + 1 >= MaxInvalid THEN 0 ELSE MaxInvalid - machine.invalid
    BY <1>1, <1>3, <1>6 DEF Trust, LosesTrust, Capped
  <2> QED BY <2>1, <2>2, <1>1
<1> QED BY <1>1, <1>4, <1>5, <1>6 DEF Modes

(* A lock is gone after at most MaxInvalid + 2 ticks without usable quality, *)
(* and no tick without it ever brings it back: each one lowers the trust,    *)
(* nothing but a tick changes it, and without trust the mode is LocalOnly    *)
(* (state_machine.cpp, rtk_fgo_node.cpp onTimer).                            *)
TrustFalls ==
  [][IF Timer /\ nmea = "bad" THEN IF Trust > 0 THEN Trust' < Trust ELSE Trust' = 0
     ELSE Timer \/ Trust' = Trust]_vars

THEOREM BadTicksReleaseTheLock ==
  Spec => /\ [](Trust \in 0 .. MaxInvalid + 2)
          /\ [](Trust = 0 <=> machine.mode = "LocalOnly")
          /\ TrustFalls
<1>1. IInv => Trust \in 0 .. MaxInvalid + 2 /\ (Trust = 0 <=> machine.mode = "LocalOnly")
  <2> SUFFICES ASSUME IInv
               PROVE  Trust \in 0 .. MaxInvalid + 2 /\ (Trust = 0 <=> machine.mode = "LocalOnly")
    OBVIOUS
  <2>1. /\ machine.mode \in Modes \ {"Recovery"} /\ machine.invalid \in 0 .. MaxInvalid
        /\ MaxInvalid \in Nat \ {0}
    BY FgoAssumption DEF IInv, TypeOK, Earned
  <2> QED BY <2>1 DEF Trust, Modes
<1>2. IInv /\ IInv' /\ [Next]_vars
        => [IF Timer /\ nmea = "bad" THEN IF Trust > 0 THEN Trust' < Trust ELSE Trust' = 0
            ELSE Timer \/ Trust' = Trust]_vars
  <2>1. ASSUME Next, ~Timer PROVE Trust' = Trust
    BY <2>1 DEF Next, LioCB, NmeaCB, FixCB, WheelCB, rest, Trust
  <2>2. ASSUME UNCHANGED vars PROVE Trust' = Trust
    BY <2>2 DEF vars, rest, Trust
  <2> QED BY <2>1, BadTickStep
<1> QED BY <1>1, <1>2, Invariance, PTL DEF Spec, TrustFalls
================================================================================
