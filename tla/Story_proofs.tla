---------------------------- MODULE Story_proofs ----------------------------
(***************************************************************************)
(* Remembering what was touched first is as good as copying everything: a  *)
(* transaction (GameplayTx), and a whole game with its saves (Story), both *)
(* implement NestedScopes, for any depth of scopes.  In a game the floor   *)
(* follows from it: what a transaction did not touch is as it was when the *)
(* floor was last right.  So does it that a trigger takes effect whole or  *)
(* not at all, if nothing else writes what it sets.                        *)
(*                                                                         *)
(* The types a transaction keeps to are a parameter T: a transaction has   *)
(* those of its constants, a game those of what was written so far.        *)
(***************************************************************************)
EXTENDS Story, SequenceTheorems, FiniteSetTheorems, WellFoundedInduction, TLAPS

States(T) == [Records -> T.values]
Befores(T) == UNION {[touched -> T.values] : touched \in SUBSET T.records}

Scope(T) == [before : Befores(T), scalars : T.scalars, signals : SUBSET T.signals, mark : Nat]
SavedCopy(T) ==
    [now : [state : States(T), scalars : T.scalars],
     reports : [events : Seq(T.events), signals : SUBSET T.signals]]

TxTypeOK(T) ==
    /\ state \in States(T)
    /\ scalars \in T.scalars
    /\ events \in Seq(T.events)
    /\ scopes \in Seq(Scope(T))
    /\ copies \in Seq(SavedCopy(T))
    /\ playthrough \in Nat

\* What the level above scope i started from, or what there is now.
StateAbove(i) == IF i = Top THEN state ELSE copies[i + 1].now.state

\* What scope i remembers, over the state of the level above it, is the copy
\* made when it began.
StateIsRemembered(i) ==
    \A k \in Records :
        copies[i].now.state[k] =
            IF k \in DOMAIN scopes[i].before THEN scopes[i].before[k] ELSE StateAbove(i)[k]

ReportsAreRemembered(i) ==
    /\ scopes[i].mark <= Len(events)
    /\ copies[i].reports.events = SubSeq(events, 1, scopes[i].mark)
    /\ copies[i].reports.signals = UNION {scopes[j].signals : j \in 1 .. i - 1}

Remembered(i) ==
    /\ StateIsRemembered(i)
    /\ copies[i].now.scalars = scopes[i].scalars
    /\ ReportsAreRemembered(i)

MarksGrow == \A i \in 1 .. Top : \A j \in 1 .. i : scopes[j].mark <= scopes[i].mark

TxInv(T) ==
    /\ TxTypeOK(T)
    /\ Len(copies) = Top
    /\ \A i \in 1 .. Top : Remembered(i)
    /\ MarksGrow

-----------------------------------------------------------------------------
(* Sequences.                                                              *)

LEMMA FrontElements ==
    ASSUME NEW S, NEW s \in Seq(S), s # <<>>
    PROVE  /\ SubSeq(s, 1, Len(s) - 1) \in Seq(S)
           /\ Len(SubSeq(s, 1, Len(s) - 1)) = Len(s) - 1
           /\ \A i \in 1 .. Len(s) - 1 : SubSeq(s, 1, Len(s) - 1)[i] = s[i]
           /\ Len(s) \in 1 .. Len(s) /\ s[Len(s)] \in S
<1>1. Len(s) \in Nat \ {0}
  BY EmptySeq
<1>2. \A i \in 1 .. Len(s) - 1 : s[i] \in S
  BY <1>1
<1>3. Len(s) - 1 - 1 + 1 = Len(s) - 1
  BY <1>1
<1> QED
  BY <1>1, <1>2, <1>3, SubSeqProperties

LEMMA AppendElements ==
    ASSUME NEW S, NEW s \in Seq(S), NEW e \in S
    PROVE  /\ Append(s, e) \in Seq(S)
           /\ Len(Append(s, e)) = Len(s) + 1
           /\ Append(s, e)[Len(s) + 1] = e
           /\ \A i \in 1 .. Len(s) : Append(s, e)[i] = s[i]
OBVIOUS

\* What comes before a mark is not changed by adding behind it.
LEMMA PrefixOfConcat ==
    ASSUME NEW S, NEW s \in Seq(S), NEW t \in Seq(S), NEW m \in Nat, m <= Len(s)
    PROVE  SubSeq(s \o t, 1, m) = SubSeq(s, 1, m)
<1>1. /\ s \o t \in Seq(S) /\ Len(s) \in Nat
      /\ \A i \in 1 .. m : (s \o t)[i] = s[i] /\ s[i] \in S
  BY ConcatProperties
<1> QED
  BY <1>1, SMT

\* A prefix of a prefix is the shorter prefix.
LEMMA PrefixOfPrefix ==
    ASSUME NEW S, NEW s \in Seq(S), NEW n \in Nat, NEW m \in Nat, m <= n, n <= Len(s)
    PROVE  /\ SubSeq(s, 1, n) \in Seq(S) /\ Len(SubSeq(s, 1, n)) = n
           /\ SubSeq(SubSeq(s, 1, n), 1, m) = SubSeq(s, 1, m)
<1>1. \A i \in 1 .. n : s[i] \in S
  BY SMT
<1>2. /\ SubSeq(s, 1, n) \in Seq(S) /\ Len(SubSeq(s, 1, n)) = n
      /\ \A i \in 1 .. n : SubSeq(s, 1, n)[i] = s[i]
  BY <1>1, SubSeqProperties, SMT
<1> QED
  BY <1>2, SMT

-----------------------------------------------------------------------------
(* Entering a scope.                                                       *)

LEMMA TopIsASequenceLength ==
    ASSUME NEW T, TxInv(T)
    PROVE  /\ Top \in Nat /\ Len(copies) = Top /\ Len(events) \in Nat
           /\ Open <=> Top > 0
           /\ \A i \in 1 .. Top : scopes[i] \in Scope(T) /\ copies[i] \in SavedCopy(T)
BY EmptySeq DEF TxInv, TxTypeOK, Top, Open

LEMMA NowIsTyped ==
    ASSUME NEW T, TxInv(T)
    PROVE  /\ Now \in [state : States(T), scalars : T.scalars]
           /\ Announced \in SUBSET T.signals
           /\ Reports \in [events : Seq(T.events), signals : SUBSET T.signals]
<1>1. \A i \in 1 .. Top : scopes[i].signals \in SUBSET T.signals
  BY TopIsASequenceLength DEF Scope
<1> QED
  BY <1>1 DEF TxInv, TxTypeOK, Now, Announced, Reports

LEMMA EnterKeepsInv ==
    ASSUME NEW T, TxInv(T), EnterScope
    PROVE  TxInv(T)'
<1> DEFINE copy == [now |-> Now, reports |-> Reports]
<1>0. PICK n \in Nat : n = Top
  BY TopIsASequenceLength
<1>1. /\ n \in Nat /\ Len(copies) = n /\ Len(events) \in Nat
      /\ \A i \in 1 .. n : scopes[i] \in Scope(T) /\ copies[i] \in SavedCopy(T)
  BY <1>0, TopIsASequenceLength
<1>2. Fresh \in Scope(T) /\ copy \in SavedCopy(T)
  <2>1. NoRecords \in [{} -> T.values]
    BY DEF NoRecords
  <2>2. NoRecords \in Befores(T)
    BY <2>1 DEF Befores
  <2> QED
    BY <1>1, <2>2, NowIsTyped DEF Fresh, Scope, SavedCopy, TxInv, TxTypeOK
<1>3. /\ scopes' \in Seq(Scope(T)) /\ Top' = n + 1
      /\ scopes'[n + 1] = Fresh /\ \A i \in 1 .. n : scopes'[i] = scopes[i]
  BY <1>0, <1>2, AppendElements DEF EnterScope, Top, TxInv, TxTypeOK
<1>4. /\ copies' \in Seq(SavedCopy(T)) /\ Len(copies') = n + 1
      /\ copies'[n + 1] = copy /\ \A i \in 1 .. n : copies'[i] = copies[i]
  <2>1. copies \in Seq(SavedCopy(T)) /\ copies' = Append(copies, copy)
    BY DEF EnterScope, TxInv, TxTypeOK
  <2> HIDE DEF copy
  <2> QED BY <1>1, <1>2, <2>1, AppendElements
<1>5. state' = state /\ scalars' = scalars /\ events' = events /\ playthrough' = playthrough
  BY DEF EnterScope
<1>6. TxTypeOK(T)'
  BY <1>3, <1>4, <1>5 DEF TxInv, TxTypeOK
<1>7. ASSUME NEW i \in 1 .. n PROVE Remembered(i)'
  <2>1. Remembered(i)
    BY <1>0 DEF TxInv
  <2>2. StateAbove(i)' = StateAbove(i)
    <3>1. CASE i = n
      BY <1>0, <1>1, <1>3, <1>4, <1>5, <3>1 DEF StateAbove, Now
    <3>2. CASE i # n
      <4>1. i + 1 \in 1 .. n /\ i # n + 1
        BY <1>1, <3>2
      <4> QED
        BY <1>0, <1>3, <1>4, <3>2, <4>1 DEF StateAbove
    <3> QED
      BY <3>1, <3>2
  <2>3. \A j \in 1 .. i - 1 : scopes'[j] = scopes[j]
    BY <1>1, <1>3
  <2>4. {scopes'[j].signals : j \in 1 .. i - 1} = {scopes[j].signals : j \in 1 .. i - 1}
    BY <2>3
  <2>5. scopes'[i] = scopes[i] /\ copies'[i] = copies[i]
    BY <1>3, <1>4
  <2>6. StateIsRemembered(i)'
    BY <2>1, <2>2, <2>5 DEF Remembered, StateIsRemembered
  <2>7. ReportsAreRemembered(i)'
    BY <1>5, <2>1, <2>4, <2>5 DEF Remembered, ReportsAreRemembered
  <2> QED
    BY <2>1, <2>5, <2>6, <2>7 DEF Remembered
<1>8. Remembered(n + 1)'
  <2>1. DOMAIN Fresh.before = {} /\ Fresh.scalars = scalars /\ Fresh.mark = Len(events)
    BY DEF Fresh, NoRecords
  <2>2. /\ copy.now.state = state /\ copy.now.scalars = scalars
        /\ copy.reports.events = events /\ copy.reports.signals = Announced
    BY DEF Now, Reports
  <2>3. StateAbove(n + 1)' = state
    BY <1>3, <1>5 DEF StateAbove
  <2>4. SubSeq(events, 1, Len(events)) = events
    BY SubSeqFull DEF TxInv, TxTypeOK
  <2>5. n + 1 - 1 = n
    BY <1>1
  <2>6. UNION {scopes'[j].signals : j \in 1 .. n} = Announced
    BY <1>0, <1>3 DEF Announced
  <2>7. StateIsRemembered(n + 1)'
    BY <1>3, <1>4, <2>1, <2>2, <2>3 DEF StateIsRemembered
  <2>8. ReportsAreRemembered(n + 1)'
    BY <1>1, <1>3, <1>4, <1>5, <2>1, <2>2, <2>4, <2>5, <2>6 DEF ReportsAreRemembered
  <2> QED
    BY <1>3, <1>4, <2>1, <2>2, <2>7, <2>8 DEF Remembered
<1>9. MarksGrow'
  <2> SUFFICES ASSUME NEW i \in 1 .. n + 1, NEW j \in 1 .. i
               PROVE  scopes'[j].mark <= scopes'[i].mark
    BY <1>3 DEF MarksGrow
  <2>1. CASE i # n + 1
    <3>1. i \in 1 .. n /\ j \in 1 .. n
      BY <1>1, <2>1
    <3> QED
      BY <1>0, <1>3, <3>1 DEF TxInv, MarksGrow
  <2>2. CASE i = n + 1 /\ j # n + 1
    <3>1. j \in 1 .. n
      BY <1>1, <2>2
    <3>2. scopes[j].mark <= Len(events)
      BY <1>0, <3>1 DEF TxInv, Remembered, ReportsAreRemembered
    <3> QED
      BY <1>3, <2>2, <3>1, <3>2 DEF Fresh
  <2>3. CASE i = n + 1 /\ j = n + 1
    BY <1>1, <1>3, <2>3 DEF Fresh
  <2> QED
    BY <2>1, <2>2, <2>3
<1>10. (\A i \in 1 .. Top : Remembered(i))'
  <2>1. \A i \in 1 .. n + 1 : i \in 1 .. n \/ i = n + 1
    BY <1>1
  <2>2. \A i \in 1 .. n + 1 : Remembered(i)'
    BY <1>7, <1>8, <2>1
  <2> QED
    BY <1>3, <2>2
<1> QED
  BY <1>3, <1>4, <1>6, <1>9, <1>10 DEF TxInv

-----------------------------------------------------------------------------
(* Working in a scope.                                                     *)

LEMMA WorkKeepsInv ==
    ASSUME NEW T, TxInv(T),
           NEW written, DOMAIN written \subseteq T.records,
           \A k \in DOMAIN written : written[k] \in T.values /\ state[k] \in T.values,
           NEW clock \in T.scalars, NEW signals \in SUBSET T.signals, NEW reported \in Seq(T.events),
           Work(written, clock, signals, reported)
    PROVE  TxInv(T)'
<1> DEFINE scope == Touched(DOMAIN written, signals)
<1>t. PICK touched \in SUBSET T.records : touched = DOMAIN written
  OBVIOUS
<1>0. PICK n \in Nat : n = Top
  BY TopIsASequenceLength
<1>1. /\ n \in 1 .. n /\ Len(copies) = n /\ Len(events) \in Nat
      /\ \A i \in 1 .. n : scopes[i] \in Scope(T) /\ copies[i] \in SavedCopy(T)
  BY <1>0, TopIsASequenceLength DEF Work
<1>2. /\ scopes[n] \in Scope(T) /\ Inner = scopes[n] /\ DOMAIN written = touched
      /\ scopes[n].before \in Befores(T)
  BY <1>t, <1>0, <1>1 DEF Inner, Scope
<1>3. PICK old \in SUBSET T.records : scopes[n].before \in [old -> T.values]
  BY <1>2 DEF Befores
<1>a. PICK s \in Scope(T) : s = scopes[n]
  BY <1>2
<1>b. /\ s = [before |-> s.before, scalars |-> s.scalars, signals |-> s.signals, mark |-> s.mark]
      /\ DOMAIN s.before = old /\ Inner = s
  BY <1>2, <1>3, <1>a DEF Scope
<1>d. scope =
        [before |-> [k \in touched \cup old |-> IF k \in old THEN s.before[k] ELSE state[k]],
         scalars |-> s.scalars, signals |-> s.signals \cup signals, mark |-> s.mark]
  <2>1. scope = [s EXCEPT
                   !.before = [k \in touched \cup old |-> IF k \in old THEN s.before[k] ELSE state[k]],
                   !.signals = s.signals \cup signals]
    BY <1>2, <1>b DEF Touched
  <2> QED
    BY <2>1 DEF Scope
<1>4. /\ scope.before = [k \in touched \cup old |->
                             IF k \in old THEN scopes[n].before[k] ELSE state[k]]
      /\ scope.scalars = scopes[n].scalars
      /\ scope.signals = scopes[n].signals \cup signals
      /\ scope.mark = scopes[n].mark
      /\ scope = [before |-> scope.before, scalars |-> scope.scalars,
                  signals |-> scope.signals, mark |-> scope.mark]
  BY <1>a, <1>d
<1>5. scope \in Scope(T)
  <2>1. scope.before \in [touched \cup old -> T.values]
    BY <1>2, <1>3, <1>4
  <2>2. scope.before \in Befores(T)
    BY <2>1 DEF Befores
  <2> QED
    BY <1>2, <1>4, <2>2 DEF Scope
<1>6. /\ scopes' \in Seq(Scope(T)) /\ Top' = n
      /\ scopes'[n] = scope /\ \A i \in 1 .. n - 1 : scopes'[i] = scopes[i]
  <2>1. scopes' = [scopes EXCEPT ![n] = scope] /\ Len(scopes) = n /\ scopes \in Seq(Scope(T))
    BY <1>0 DEF Work, WithInner, Top, TxInv, TxTypeOK
  <2> HIDE DEF scope
  <2> QED
    BY <1>1, <1>5, <2>1 DEF Top
<1>7. /\ state' = Put(written) /\ scalars' = clock /\ events' = events \o reported
      /\ copies' = copies /\ playthrough' = playthrough
  BY DEF Work
<1>8. Put(written) \in States(T) /\ \A k \in Records \ touched : Put(written)[k] = state[k]
  BY <1>2 DEF Put, TxInv, TxTypeOK, States
<1>9. TxTypeOK(T)'
  BY <1>6, <1>7, <1>8, ConcatProperties DEF TxInv, TxTypeOK
<1>10. ASSUME NEW i \in 1 .. n PROVE Remembered(i)'
  <2>1. Remembered(i) /\ copies'[i] = copies[i]
    BY <1>0, <1>7 DEF TxInv
  <2>2. /\ scopes'[i].mark = scopes[i].mark /\ scopes'[i].scalars = scopes[i].scalars
        /\ scopes[i].mark \in Nat
    <3>1. i = n \/ i \in 1 .. n - 1
      BY <1>1
    <3>2. scopes[i] \in Scope(T)
      BY <1>1
    <3> HIDE DEF scope
    <3> QED
      BY <1>4, <1>6, <3>1, <3>2 DEF Scope
  <2>3. StateIsRemembered(i)'
    <3>1. CASE i = n
      <4>1. StateAbove(i) = state /\ StateAbove(i)' = Put(written)
        BY <1>0, <1>6, <1>7, <3>1 DEF StateAbove
      <4>2. ASSUME NEW k \in Records
            PROVE  copies'[i].now.state[k] =
                     IF k \in DOMAIN scopes'[i].before THEN scopes'[i].before[k]
                     ELSE StateAbove(i)'[k]
        <5>1. copies[i].now.state[k] = IF k \in old THEN scopes[n].before[k] ELSE state[k]
          BY <1>3, <2>1, <3>1, <4>1 DEF Remembered, StateIsRemembered
        <5>2. /\ DOMAIN scopes'[i].before = touched \cup old
              /\ k \in touched \cup old => scopes'[i].before[k] =
                    IF k \in old THEN scopes[n].before[k] ELSE state[k]
          BY <1>4, <1>6, <3>1
        <5> QED
          BY <1>8, <2>1, <4>1, <5>1, <5>2
      <4> QED
        BY <4>2 DEF StateIsRemembered
    <3>2. CASE i # n
      <4>1. i \in 1 .. n - 1 /\ i + 1 \in 1 .. n
        BY <1>1, <3>2
      <4>2. StateAbove(i)' = StateAbove(i)
        BY <1>0, <1>6, <1>7, <3>2 DEF StateAbove
      <4> QED
        BY <1>6, <2>1, <4>1, <4>2 DEF Remembered, StateIsRemembered
    <3> QED
      BY <3>1, <3>2
  <2>4. ReportsAreRemembered(i)'
    <3>1. \A j \in 1 .. i - 1 : scopes'[j] = scopes[j]
      BY <1>1, <1>6
    <3>2. {scopes'[j].signals : j \in 1 .. i - 1} = {scopes[j].signals : j \in 1 .. i - 1}
      BY <3>1
    <3>3. scopes[i].mark <= Len(events) /\ events \in Seq(T.events)
      BY <2>1 DEF Remembered, ReportsAreRemembered, TxInv, TxTypeOK
    <3>4. SubSeq(events', 1, scopes[i].mark) = SubSeq(events, 1, scopes[i].mark)
      BY <1>7, <2>2, <3>3, PrefixOfConcat
    <3>5. scopes[i].mark <= Len(events')
      BY <1>7, <2>2, <3>3, ConcatProperties
    <3> QED
      BY <2>1, <2>2, <3>2, <3>4, <3>5 DEF Remembered, ReportsAreRemembered
  <2> QED
    BY <2>1, <2>2, <2>3, <2>4 DEF Remembered
<1>11. \A i \in 1 .. n : scopes'[i].mark = scopes[i].mark
  <2> HIDE DEF scope
  <2> QED
    BY <1>1, <1>4, <1>6
<1>12. MarksGrow'
  BY <1>0, <1>1, <1>6, <1>11 DEF TxInv, MarksGrow
<1>13. (\A i \in 1 .. Top : Remembered(i))'
  BY <1>6, <1>10
<1> QED
  BY <1>1, <1>6, <1>7, <1>9, <1>12, <1>13 DEF TxInv

-----------------------------------------------------------------------------
(* Leaving a scope.                                                        *)

\* The scopes and copies below the innermost are typed and as they were.
LEMMA Below ==
    ASSUME NEW T, TxInv(T), Open
    PROVE  \E n \in Nat :
             /\ n + 1 = Top /\ n + 1 \in 1 .. Top /\ Inner = scopes[n + 1]
             /\ Len(copies) = n + 1 /\ Len(events) \in Nat
             /\ \A i \in 1 .. n + 1 : scopes[i] \in Scope(T) /\ copies[i] \in SavedCopy(T)
             /\ Outer \in Seq(Scope(T)) /\ Len(Outer) = n
             /\ \A i \in 1 .. n : Outer[i] = scopes[i]
             /\ SubSeq(copies, 1, Top - 1) \in Seq(SavedCopy(T))
             /\ Len(SubSeq(copies, 1, Top - 1)) = n
             /\ \A i \in 1 .. n : SubSeq(copies, 1, Top - 1)[i] = copies[i]
<1>1. PICK n \in Nat : n + 1 = Top
  <2>1. Top \in Nat /\ Top > 0
    BY TopIsASequenceLength
  <2> QED
    BY <2>1, Top - 1 \in Nat
<1>2. scopes # <<>> /\ copies # <<>> /\ scopes \in Seq(Scope(T)) /\ copies \in Seq(SavedCopy(T))
  BY <1>1, EmptySeq, TopIsASequenceLength DEF Open, TxInv, TxTypeOK
<1>3. /\ Outer \in Seq(Scope(T)) /\ Len(Outer) = n
      /\ \A i \in 1 .. n : Outer[i] = scopes[i]
  BY <1>1, <1>2, FrontElements DEF Outer, Top
<1>4. /\ SubSeq(copies, 1, Top - 1) \in Seq(SavedCopy(T))
      /\ Len(SubSeq(copies, 1, Top - 1)) = n
      /\ \A i \in 1 .. n : SubSeq(copies, 1, Top - 1)[i] = copies[i]
  BY <1>1, <1>2, FrontElements, TopIsASequenceLength
<1>5. /\ n + 1 \in 1 .. Top /\ Inner = scopes[n + 1]
      /\ Len(copies) = n + 1 /\ Len(events) \in Nat
      /\ \A i \in 1 .. n + 1 : scopes[i] \in Scope(T) /\ copies[i] \in SavedCopy(T)
  BY <1>1, TopIsASequenceLength DEF Inner
<1> QED
  BY <1>1, <1>3, <1>4, <1>5

\* Undoing the innermost scope puts its copy back.
LEMMA UndoRestoresTheCopy ==
    ASSUME NEW T, TxInv(T), UndoScope
    PROVE  /\ Now' = copies[Top].now
           /\ Reports' = copies[Top].reports
           /\ state' = copies[Top].now.state
<1>1. PICK n \in Nat :
             /\ n + 1 = Top /\ n + 1 \in 1 .. Top /\ Inner = scopes[n + 1]
             /\ Len(copies) = n + 1
             /\ \A i \in 1 .. n + 1 : scopes[i] \in Scope(T) /\ copies[i] \in SavedCopy(T)
             /\ Len(Outer) = n
             /\ \A i \in 1 .. n : Outer[i] = scopes[i]
  BY Below DEF UndoScope
<1>2. Remembered(n + 1)
  BY <1>1 DEF TxInv
<1>3. PICK copy \in SavedCopy(T) : copy = copies[Top]
  BY <1>1
<1>4. StateAbove(n + 1) = state
  BY <1>1 DEF StateAbove
<1>5. copy.now.state = RestoredState
  <2>1. \A k \in Records : copy.now.state[k] = RestoredState[k]
    BY <1>1, <1>2, <1>3, <1>4 DEF Remembered, StateIsRemembered, RestoredState
  <2>2. copy.now.state \in [Records -> T.values]
    BY DEF SavedCopy, States
  <2> QED
    BY <2>1, <2>2 DEF RestoredState
<1>6. copy.now.scalars = Inner.scalars
  BY <1>1, <1>2, <1>3 DEF Remembered
<1>7. copy.now = [state |-> copy.now.state, scalars |-> copy.now.scalars]
  BY DEF SavedCopy
<1>8. copy.reports.events = SubSeq(events, 1, Inner.mark)
  BY <1>1, <1>2, <1>3 DEF Remembered, ReportsAreRemembered
<1>9. copy.reports.signals = Announced'
  <2>1. Top' = n /\ \A j \in 1 .. n : scopes'[j] = scopes[j]
    BY <1>1 DEF UndoScope, Top
  <2>2. n + 1 - 1 = n
    OBVIOUS
  <2>3. copy.reports.signals = UNION {scopes[j].signals : j \in 1 .. n}
    BY <1>1, <1>2, <1>3, <2>2 DEF Remembered, ReportsAreRemembered
  <2>4. {scopes'[j].signals : j \in 1 .. n} = {scopes[j].signals : j \in 1 .. n}
    BY <2>1
  <2> QED
    BY <2>1, <2>3, <2>4 DEF Announced
<1>10. copy.reports = [events |-> copy.reports.events, signals |-> copy.reports.signals]
  BY DEF SavedCopy
<1> QED
  BY <1>3, <1>5, <1>6, <1>7, <1>8, <1>9, <1>10 DEF UndoScope, Now, Reports

LEMMA UndoKeepsInv ==
    ASSUME NEW T, TxInv(T), UndoScope
    PROVE  TxInv(T)'
<1>1. PICK n \in Nat :
             /\ n + 1 = Top /\ n + 1 \in 1 .. Top /\ Inner = scopes[n + 1]
             /\ Len(copies) = n + 1 /\ Len(events) \in Nat
             /\ \A i \in 1 .. n + 1 : scopes[i] \in Scope(T) /\ copies[i] \in SavedCopy(T)
             /\ Outer \in Seq(Scope(T)) /\ Len(Outer) = n
             /\ \A i \in 1 .. n : Outer[i] = scopes[i]
             /\ SubSeq(copies, 1, Top - 1) \in Seq(SavedCopy(T))
             /\ Len(SubSeq(copies, 1, Top - 1)) = n
             /\ \A i \in 1 .. n : SubSeq(copies, 1, Top - 1)[i] = copies[i]
  BY Below DEF UndoScope
<1>2. /\ scopes' \in Seq(Scope(T)) /\ Top' = n /\ \A i \in 1 .. n : scopes'[i] = scopes[i]
      /\ copies' \in Seq(SavedCopy(T)) /\ Len(copies') = n
      /\ \A i \in 1 .. n : copies'[i] = copies[i]
      /\ playthrough' = playthrough
  BY <1>1 DEF UndoScope, Top
<1>3. /\ state' = copies[n + 1].now.state /\ state' \in States(T)
      /\ scalars' \in T.scalars
  BY <1>1, UndoRestoresTheCopy DEF UndoScope, Scope, SavedCopy
<1>4. PICK m \in Nat : m = scopes[n + 1].mark /\ m <= Len(events)
  BY <1>1 DEF TxInv, Remembered, ReportsAreRemembered, Scope
<1>5. events' = SubSeq(events, 1, m) /\ events' \in Seq(T.events) /\ Len(events') = m
  <2>1. events \in Seq(T.events)
    BY DEF TxInv, TxTypeOK
  <2>2. events' = SubSeq(events, 1, m)
    BY <1>1, <1>4 DEF UndoScope
  <2>3. m \in Nat /\ m <= m /\ m <= Len(events)
    BY <1>4
  <2>4. SubSeq(events, 1, m) \in Seq(T.events) /\ Len(SubSeq(events, 1, m)) = m
    BY <2>1, <2>3, PrefixOfPrefix
  <2> QED BY <2>2, <2>4
<1>6. TxTypeOK(T)'
  BY <1>2, <1>3, <1>5 DEF TxInv, TxTypeOK
<1>7. ASSUME NEW i \in 1 .. n PROVE Remembered(i)'
  <2>1. /\ Remembered(i) /\ i \in 1 .. n + 1
        /\ scopes'[i] = scopes[i] /\ copies'[i] = copies[i]
    <3>1. i \in 1 .. Top /\ i \in 1 .. n + 1
      BY <1>1
    <3>2. \A l \in 1 .. Top : Remembered(l)
      BY DEF TxInv
    <3> QED
      BY <1>2, <3>1, <3>2
  <2>2. StateAbove(i) = copies[i + 1].now.state
    BY <1>1 DEF StateAbove
  <2>3. StateAbove(i)' = copies[i + 1].now.state
    <3>1. CASE i = n
      BY <1>2, <1>3, <3>1 DEF StateAbove
    <3>2. CASE i # n
      <4>1. i + 1 \in 1 .. n
        BY <3>2
      <4> QED
        BY <1>2, <3>2, <4>1 DEF StateAbove
    <3> QED
      BY <3>1, <3>2
  <2>4. StateIsRemembered(i)'
    BY <2>1, <2>2, <2>3 DEF Remembered, StateIsRemembered
  <2>5. scopes[i].mark \in Nat /\ scopes[i].mark <= m
    BY <1>1, <1>4, <2>1 DEF TxInv, MarksGrow, Scope
  <2>6. SubSeq(events', 1, scopes[i].mark) = SubSeq(events, 1, scopes[i].mark)
    <3>1. events \in Seq(T.events) /\ m \in Nat /\ m <= Len(events)
      BY <1>4 DEF TxInv, TxTypeOK
    <3>2. SubSeq(SubSeq(events, 1, m), 1, scopes[i].mark) = SubSeq(events, 1, scopes[i].mark)
      BY <2>5, <3>1, PrefixOfPrefix
    <3> QED
      BY <1>5, <3>2
  <2>7. \A j \in 1 .. i - 1 : scopes'[j] = scopes[j]
    BY <1>2
  <2>8. {scopes'[j].signals : j \in 1 .. i - 1} = {scopes[j].signals : j \in 1 .. i - 1}
    BY <2>7
  <2>9. ReportsAreRemembered(i)'
    BY <1>5, <2>1, <2>5, <2>6, <2>8 DEF Remembered, ReportsAreRemembered
  <2> QED
    BY <2>1, <2>4, <2>9 DEF Remembered
<1>8. (\A i \in 1 .. Top : Remembered(i))'
  BY <1>2, <1>7
<1>9. MarksGrow'
  BY <1>1, <1>2 DEF TxInv, MarksGrow
<1> QED
  BY <1>2, <1>6, <1>8, <1>9 DEF TxInv

\* What a scope merged into the one around it remembers.
LEMMA MergedScope ==
    ASSUME NEW T, NEW inner \in Scope(T), NEW outer \in Scope(T)
    PROVE  \E merged \in Scope(T) :
             /\ merged = Merged(inner, outer)
             /\ merged.scalars = outer.scalars /\ merged.mark = outer.mark
             /\ merged.signals = outer.signals \cup inner.signals
             /\ DOMAIN merged.before = DOMAIN inner.before \cup DOMAIN outer.before
             /\ \A k \in DOMAIN inner.before \cup DOMAIN outer.before :
                  merged.before[k] = IF k \in DOMAIN outer.before THEN outer.before[k]
                                     ELSE inner.before[k]
<1> DEFINE both == DOMAIN inner.before \cup DOMAIN outer.before
           before == [k \in both |-> IF k \in DOMAIN outer.before THEN outer.before[k]
                                     ELSE inner.before[k]]
           merged == [before |-> before, scalars |-> outer.scalars,
                      signals |-> outer.signals \cup inner.signals, mark |-> outer.mark]
<1>1. PICK ins \in SUBSET T.records : inner.before \in [ins -> T.values]
  BY DEF Scope, Befores
<1>2. PICK outs \in SUBSET T.records : outer.before \in [outs -> T.values]
  BY DEF Scope, Befores
<1>3. both = ins \cup outs /\ both \in SUBSET T.records
  BY <1>1, <1>2
<1>4. before \in [both -> T.values]
  BY <1>1, <1>2
<1>5. before \in Befores(T)
  BY <1>3, <1>4 DEF Befores
<1>6. merged = Merged(inner, outer)
  <2>1. Merged(inner, outer) =
          [outer EXCEPT !.before = before, !.signals = outer.signals \cup inner.signals]
    BY DEF Merged
  <2> HIDE DEF before
  <2> QED
    BY <2>1 DEF Scope
<1>7. merged \in Scope(T)
  <2> HIDE DEF before
  <2> QED
    BY <1>5 DEF Scope
<1> QED
  BY <1>6, <1>7

\* Keeping the outermost scope leaves none.
LEMMA KeepOutermostKeepsInv ==
    ASSUME NEW T, TxInv(T), KeepScope, Top = 1
    PROVE  TxInv(T)'
<1>1. scopes' = <<>> /\ events' = <<>> /\ Top' = 0
  BY DEF KeepScope, Top
<1>2. copies' = <<>>
  <2>1. copies' = SubSeq(copies, 1, 0)
    BY DEF KeepScope
  <2> QED
    BY <2>1 DEF TxInv, TxTypeOK
<1>3. state' = state /\ scalars' = scalars /\ playthrough' = playthrough
  BY DEF KeepScope
<1>4. TxTypeOK(T)'
  BY <1>1, <1>2, <1>3 DEF TxInv, TxTypeOK
<1>5. (\A i \in 1 .. Top : Remembered(i))' /\ MarksGrow'
  BY <1>1 DEF MarksGrow
<1>6. Len(copies') = Top'
  BY <1>1, <1>2
<1> QED
  BY <1>4, <1>5, <1>6 DEF TxInv

\* Keeping a nested scope: what it remembers goes to the scope around it.
LEMMA KeepNestedKeepsInv ==
    ASSUME NEW T, TxInv(T), KeepScope, Top # 1
    PROVE  TxInv(T)' /\ Reports' = Reports
<1>1. PICK n \in Nat :
             /\ n + 1 = Top /\ n + 1 \in 1 .. Top /\ Inner = scopes[n + 1]
             /\ Len(copies) = n + 1 /\ Len(events) \in Nat
             /\ \A i \in 1 .. n + 1 : scopes[i] \in Scope(T) /\ copies[i] \in SavedCopy(T)
             /\ Outer \in Seq(Scope(T)) /\ Len(Outer) = n
             /\ \A i \in 1 .. n : Outer[i] = scopes[i]
             /\ SubSeq(copies, 1, Top - 1) \in Seq(SavedCopy(T))
             /\ Len(SubSeq(copies, 1, Top - 1)) = n
             /\ \A i \in 1 .. n : SubSeq(copies, 1, Top - 1)[i] = copies[i]
  BY Below DEF KeepScope
<1>2. n \in 1 .. n /\ n \in 1 .. n + 1 /\ Top - 1 = n /\ Outer[n] = scopes[n]
  BY <1>1
<1>3. PICK merged \in Scope(T) :
             /\ merged = Merged(Inner, scopes[n])
             /\ merged.scalars = scopes[n].scalars /\ merged.mark = scopes[n].mark
             /\ merged.signals = scopes[n].signals \cup scopes[n + 1].signals
             /\ DOMAIN merged.before = DOMAIN scopes[n + 1].before \cup DOMAIN scopes[n].before
             /\ \A k \in DOMAIN scopes[n + 1].before \cup DOMAIN scopes[n].before :
                  merged.before[k] = IF k \in DOMAIN scopes[n].before THEN scopes[n].before[k]
                                     ELSE scopes[n + 1].before[k]
  <2>1. scopes[n] \in Scope(T) /\ scopes[n + 1] \in Scope(T)
    BY <1>1, <1>2
  <2> QED
    BY <1>1, <2>1, MergedScope
<1>4. /\ scopes' \in Seq(Scope(T)) /\ Top' = n /\ scopes'[n] = merged
      /\ \A i \in 1 .. n - 1 : scopes'[i] = scopes[i]
  <2>1. PICK outer \in Seq(Scope(T)) : outer = Outer
    BY <1>1
  <2>2. scopes' = [outer EXCEPT ![n] = Merged(Inner, outer[n])]
    BY <1>2, <2>1 DEF KeepScope
  <2>3. scopes' = [outer EXCEPT ![n] = merged]
    BY <1>2, <1>3, <2>1, <2>2
  <2>4. Len(outer) = n /\ \A i \in 1 .. n : outer[i] = scopes[i]
    BY <1>1, <2>1
  <2> QED
    BY <1>2, <2>3, <2>4 DEF Top
<1>5. /\ copies' \in Seq(SavedCopy(T)) /\ Len(copies') = n
      /\ \A i \in 1 .. n : copies'[i] = copies[i]
      /\ state' = state /\ scalars' = scalars /\ playthrough' = playthrough
      /\ events' = events
  BY <1>1 DEF KeepScope
<1>6. TxTypeOK(T)'
  BY <1>4, <1>5 DEF TxInv, TxTypeOK
<1>7. \A i \in 1 .. n : scopes'[i].mark = scopes[i].mark /\ scopes'[i].scalars = scopes[i].scalars
  <2> TAKE i \in 1 .. n
  <2>1. i = n \/ i \in 1 .. n - 1
    OBVIOUS
  <2> QED
    BY <1>3, <1>4, <2>1
<1>8. ASSUME NEW i \in 1 .. n PROVE Remembered(i)'
  <2>1. Remembered(i) /\ i \in 1 .. n + 1
    <3>1. i \in 1 .. Top /\ i \in 1 .. n + 1
      BY <1>1
    <3>2. \A l \in 1 .. Top : Remembered(l)
      BY DEF TxInv
    <3> QED
      BY <3>1, <3>2
  <2>2. StateIsRemembered(i)'
    <3>1. CASE i = n
      <4>1. StateAbove(n)' = state /\ StateAbove(n + 1) = state
            /\ StateAbove(n) = copies[n + 1].now.state
        BY <1>1, <1>4, <1>5 DEF StateAbove
      <4>2. Remembered(n + 1)
        BY <1>1 DEF TxInv
      <4>3. ASSUME NEW k \in Records
            PROVE  copies'[n].now.state[k] =
                     IF k \in DOMAIN scopes'[n].before THEN scopes'[n].before[k]
                     ELSE StateAbove(n)'[k]
        <5>1. copies[n].now.state[k] =
                IF k \in DOMAIN scopes[n].before THEN scopes[n].before[k]
                ELSE copies[n + 1].now.state[k]
          BY <2>1, <3>1, <4>1 DEF Remembered, StateIsRemembered
        <5>2. copies[n + 1].now.state[k] =
                IF k \in DOMAIN scopes[n + 1].before THEN scopes[n + 1].before[k]
                ELSE state[k]
          BY <4>1, <4>2 DEF Remembered, StateIsRemembered
        <5>3. copies'[n] = copies[n]
          BY <1>2, <1>5
        <5> QED
          BY <1>3, <1>4, <4>1, <5>1, <5>2, <5>3
      <4> QED
        BY <3>1, <4>3 DEF StateIsRemembered
    <3>2. CASE i # n
      <4>1. i \in 1 .. n - 1 /\ i + 1 \in 1 .. n
        BY <3>2
      <4>2. StateAbove(i)' = copies[i + 1].now.state
        BY <1>4, <1>5, <3>2, <4>1 DEF StateAbove
      <4>3. StateAbove(i) = copies[i + 1].now.state
        BY <1>1, <4>1 DEF StateAbove
      <4> QED
        BY <1>4, <1>5, <2>1, <4>1, <4>2, <4>3 DEF Remembered, StateIsRemembered
    <3> QED
      BY <3>1, <3>2
  <2>3. \A j \in 1 .. i - 1 : scopes'[j] = scopes[j]
    BY <1>4
  <2>4. {scopes'[j].signals : j \in 1 .. i - 1} = {scopes[j].signals : j \in 1 .. i - 1}
    BY <2>3
  <2>5. ReportsAreRemembered(i)'
    BY <1>5, <1>7, <2>1, <2>4 DEF Remembered, ReportsAreRemembered
  <2> QED
    BY <1>5, <1>7, <2>1, <2>2, <2>5 DEF Remembered
<1>9. (\A i \in 1 .. Top : Remembered(i))'
  BY <1>4, <1>8
<1>10. MarksGrow'
  BY <1>1, <1>4, <1>7 DEF TxInv, MarksGrow
<1>11. TxInv(T)'
  BY <1>4, <1>5, <1>6, <1>9, <1>10 DEF TxInv
<1>12. Announced' = Announced
  <2>1. Announced' = UNION {scopes'[i].signals : i \in 1 .. n}
    BY <1>4 DEF Announced
  <2>2. Announced = UNION {scopes[i].signals : i \in 1 .. n + 1}
    BY <1>1 DEF Announced
  <2>3. ASSUME NEW x \in UNION {scopes'[i].signals : i \in 1 .. n}
        PROVE  x \in UNION {scopes[i].signals : i \in 1 .. n + 1}
    <3>1. PICK i \in 1 .. n : x \in scopes'[i].signals
      OBVIOUS
    <3>2. n + 1 \in 1 .. n + 1 /\ i \in 1 .. n + 1 /\ (i = n \/ i \in 1 .. n - 1)
      OBVIOUS
    <3>3. x \in scopes[i].signals \/ x \in scopes[n + 1].signals
      BY <1>3, <1>4, <3>1, <3>2
    <3> QED
      BY <3>2, <3>3
  <2>4. ASSUME NEW x \in UNION {scopes[i].signals : i \in 1 .. n + 1}
        PROVE  x \in UNION {scopes'[i].signals : i \in 1 .. n}
    <3>1. PICK i \in 1 .. n + 1 : x \in scopes[i].signals
      OBVIOUS
    <3>2. n \in 1 .. n /\ (i = n + 1 \/ i = n \/ i \in 1 .. n - 1)
      BY <1>2
    <3>3. CASE i \in 1 .. n - 1
      <4>1. i \in 1 .. n /\ x \in scopes'[i].signals
        BY <1>4, <3>1, <3>3
      <4> QED
        BY <4>1
    <3>4. CASE i = n \/ i = n + 1
      <4>1. x \in scopes'[n].signals
        BY <1>3, <1>4, <3>1, <3>4
      <4> QED
        BY <3>2, <4>1
    <3> QED
      BY <3>2, <3>3, <3>4
  <2> QED
    BY <2>1, <2>2, <2>3, <2>4
<1> QED
  BY <1>5, <1>11, <1>12 DEF Reports

\* Keeping any scope.
LEMMA KeepKeepsInv ==
    ASSUME NEW T, TxInv(T), KeepScope
    PROVE  TxInv(T)'
BY KeepOutermostKeepsInv, KeepNestedKeepsInv

-----------------------------------------------------------------------------
(* Every behaviour.                                                        *)

LEMMA ResumeKeepsInv ==
    ASSUME NEW T, TxInv(T), NEW records \in States(T), NEW clock \in T.scalars, Resume(records, clock)
    PROVE  TxInv(T)' /\ Scopes!Replace
<1>1. /\ scopes' = <<>> /\ copies' = <<>> /\ events' = <<>> /\ Top' = 0
      /\ state' = records /\ scalars' = clock /\ playthrough' = playthrough + 1
  BY DEF Resume, Top
<1>2. TxTypeOK(T)'
  BY <1>1 DEF TxInv, TxTypeOK
<1>3. (\A i \in 1 .. Top : Remembered(i))' /\ MarksGrow'
  BY <1>1 DEF MarksGrow
<1>4. Len(copies') = Top'
  BY <1>1
<1>5. playthrough' # playthrough
  BY <1>1 DEF TxInv, TxTypeOK
<1> QED
  BY <1>1, <1>2, <1>3, <1>4, <1>5 DEF TxInv, Scopes!Replace

LEMMA TxInitHolds ==
    ASSUME NEW T, state \in States(T), scalars \in T.scalars,
           events = <<>>, scopes = <<>>, copies = <<>>, playthrough = 0
    PROVE  TxInv(T) /\ Scopes!ScopesInit
<1>1. Top = 0 /\ Len(copies) = 0
  BY DEF Top
<1>2. TxTypeOK(T)
  BY DEF TxTypeOK
<1>3. (\A i \in 1 .. Top : Remembered(i)) /\ MarksGrow
  BY <1>1 DEF MarksGrow
<1> QED
  BY <1>1, <1>2, <1>3 DEF TxInv, Scopes!ScopesInit

\* Entering a scope announces nothing, and copies what there is.
LEMMA EnterRefines ==
    ASSUME NEW T, TxInv(T), EnterScope
    PROVE  Scopes!Enter
<1>0. PICK n \in Nat : n = Top
  BY TopIsASequenceLength
<1>1. /\ Top' = n + 1 /\ scopes'[n + 1] = Fresh
      /\ \A i \in 1 .. n : scopes'[i] = scopes[i] /\ scopes[i] \in Scope(T)
  <2>1. scopes \in Seq(Scope(T)) /\ Len(scopes) = n
    BY <1>0 DEF TxInv, TxTypeOK, Top
  <2>2. scopes' = Append(scopes, Fresh)
    BY DEF EnterScope
  <2> QED
    BY <2>1, <2>2 DEF Top
<1>2. Fresh.signals = {}
  BY DEF Fresh
<1>3. Announced' = Announced
  <2>1. Announced' = UNION {scopes'[i].signals : i \in 1 .. n + 1}
    BY <1>1 DEF Announced
  <2>2. Announced = UNION {scopes[i].signals : i \in 1 .. n}
    BY <1>0 DEF Announced
  <2>3. \A i \in 1 .. n + 1 : i \in 1 .. n \/ i = n + 1
    OBVIOUS
  <2>4. \A i \in 1 .. n : i \in 1 .. n + 1
    OBVIOUS
  <2>5. \A x \in Announced' : x \in Announced
    BY <1>1, <1>2, <2>1, <2>2, <2>3
  <2>6. \A x \in Announced : x \in Announced'
    BY <1>1, <2>1, <2>2, <2>4
  <2> QED
    BY <2>5, <2>6, NowIsTyped DEF Announced
<1> QED
  BY <1>3 DEF EnterScope, Scopes!Enter, Scopes!Copy, Now, Reports

\* Keeping a nested scope hands nothing over.
LEMMA KeepRefines ==
    ASSUME NEW T, TxInv(T), KeepScope
    PROVE  Scopes!Keep
<1>1. copies # <<>> /\ Len(copies) = Top
  <2>1. Len(copies) = Top /\ Top > 0
    BY TopIsASequenceLength DEF KeepScope
  <2> QED
    BY <2>1, EmptySeq DEF TxInv, TxTypeOK
<1>2. copies' = Scopes!Left
  BY <1>1 DEF KeepScope, Scopes!Left
<1>3. Len(copies) = 1 \/ Reports' = Reports
  BY <1>1, KeepNestedKeepsInv
<1>4. Now' = Now /\ playthrough' = playthrough
  BY DEF KeepScope, Now
<1> QED
  BY <1>1, <1>2, <1>3, <1>4 DEF Scopes!Keep

\* Undoing a scope puts its copy back.
LEMMA UndoRefines ==
    ASSUME NEW T, TxInv(T), UndoScope
    PROVE  Scopes!Undo
<1>1. Len(copies) = Top /\ Top \in 1 .. Top /\ copies[Top] \in SavedCopy(T) /\ copies # <<>>
  <2>1. Len(copies) = Top /\ Top > 0 /\ Top \in Nat
    BY TopIsASequenceLength DEF UndoScope
  <2>2. Top \in 1 .. Top
    BY <2>1
  <2> QED
    BY <2>1, <2>2, EmptySeq, TopIsASequenceLength DEF TxInv, TxTypeOK
<1>2. PICK copy \in SavedCopy(T) : copy = copies[Top]
  BY <1>1
<1>3. copy = [now |-> copy.now, reports |-> copy.reports]
  BY DEF SavedCopy
<1>4. [now |-> Now', reports |-> Reports'] = copy
  BY <1>2, <1>3, UndoRestoresTheCopy
<1>5. Scopes!Copy' = Scopes!Innermost
  BY <1>1, <1>2, <1>4 DEF Scopes!Copy, Scopes!Innermost
<1>6. copies' = Scopes!Left /\ playthrough' = playthrough
  BY <1>1 DEF UndoScope, Scopes!Left
<1> QED
  BY <1>1, <1>5, <1>6 DEF Scopes!Undo

\* Work in a scope leaves the copies alone.
LEMMA WorkRefines ==
    ASSUME NEW T, TxInv(T), NEW written, NEW clock, NEW signals, NEW reported,
           Work(written, clock, signals, reported)
    PROVE  Scopes!Work
<1>1. Len(copies) = Top /\ Top > 0
  BY TopIsASequenceLength DEF Work
<1>2. copies # <<>>
  BY <1>1, EmptySeq DEF TxInv, TxTypeOK
<1> QED
  BY <1>2 DEF Work, Scopes!Work

\* A step of a transaction whose records, values and reports are of T, or
\* another playthrough.
TypedWork(T, written, clock, signals, reported) ==
    /\ clock \in T.scalars /\ signals \in SUBSET T.signals /\ reported \in Seq(T.events)
    /\ DOMAIN written \subseteq T.records
    /\ \A k \in DOMAIN written : written[k] \in T.values /\ state[k] \in T.values
    /\ Work(written, clock, signals, reported)

StepOf(T) ==
    \/ EnterScope \/ KeepScope \/ UndoScope
    \/ \E records \in States(T), clock \in T.scalars : Resume(records, clock)
    \/ \E written, clock, signals, reported : TypedWork(T, written, clock, signals, reported)
    \/ UNCHANGED txVars

\* Every step keeps the invariant, and is a step of the copying scopes.
LEMMA TypedStep ==
    ASSUME NEW T, TxInv(T), StepOf(T)
    PROVE  TxInv(T)' /\ [Scopes!ScopesNext]_(Scopes!scopesVars)
<1>1. CASE EnterScope
  BY <1>1, EnterKeepsInv, EnterRefines DEF Scopes!ScopesNext
<1>2. CASE KeepScope
  BY <1>2, KeepKeepsInv, KeepRefines DEF Scopes!ScopesNext
<1>3. CASE UndoScope
  BY <1>3, UndoKeepsInv, UndoRefines DEF Scopes!ScopesNext
<1>4. ASSUME NEW records \in States(T), NEW clock \in T.scalars, Resume(records, clock)
      PROVE  TxInv(T)' /\ [Scopes!ScopesNext]_(Scopes!scopesVars)
  BY <1>4, ResumeKeepsInv DEF Scopes!ScopesNext
<1>5. ASSUME NEW written, NEW clock, NEW signals, NEW reported,
             TypedWork(T, written, clock, signals, reported)
      PROVE  TxInv(T)' /\ [Scopes!ScopesNext]_(Scopes!scopesVars)
  BY <1>5, WorkKeepsInv, WorkRefines DEF Scopes!ScopesNext, TypedWork
<1>6. CASE UNCHANGED txVars
  <2>1. Top' = Top /\ Now' = Now /\ Reports' = Reports
    BY <1>6 DEF txVars, Top, Now, Reports, Announced
  <2>2. (\A i \in 1 .. Top : Remembered(i))'
    BY <1>6 DEF TxInv, txVars, Remembered, StateIsRemembered, ReportsAreRemembered,
       StateAbove, Top
  <2>3. TxInv(T)'
    BY <1>6, <2>2 DEF TxInv, txVars, TxTypeOK, Top, MarksGrow
  <2>4. UNCHANGED Scopes!scopesVars
    BY <1>6, <2>1 DEF txVars, Scopes!scopesVars
  <2> QED
    BY <2>3, <2>4
<1> QED
  BY <1>1, <1>2, <1>3, <1>4, <1>5, <1>6 DEF StepOf

TxTypes == [records |-> Records, values |-> Content, scalars |-> Scalars,
            signals |-> Signals, events |-> Events]

LEMMA TxStep ==
    ASSUME TxInv(TxTypes), [TxNext]_txVars
    PROVE  TxInv(TxTypes)' /\ [Scopes!ScopesNext]_(Scopes!scopesVars)
<1>1. state \in [Records -> Content]
  BY DEF TxInv, TxTypeOK, States, TxTypes
<1>2. \/ EnterScope \/ KeepScope \/ UndoScope \/ UNCHANGED txVars
      \/ \E records \in [Records -> Content], clock \in Scalars : Resume(records, clock)
      \/ \E records \in SUBSET Records, clock \in Scalars,
            signals \in SUBSET Signals, reported \in Seq(Events) :
            \E written \in [records -> Content] : Work(written, clock, signals, reported)
  BY DEF TxNext
<1>3. /\ TxTypes.records = Records /\ TxTypes.values = Content
      /\ TxTypes.scalars = Scalars /\ TxTypes.signals = Signals
      /\ TxTypes.events = Events /\ States(TxTypes) = [Records -> Content]
  BY DEF TxTypes, States
<1>4. CASE EnterScope \/ KeepScope \/ UndoScope \/ UNCHANGED txVars
  BY <1>4, TypedStep DEF StepOf
<1>5. CASE \E records \in [Records -> Content], clock \in Scalars : Resume(records, clock)
  <2>1. StepOf(TxTypes)
    BY <1>3, <1>5 DEF StepOf
  <2> QED
    BY <2>1, TypedStep
<1>6. ASSUME NEW records \in SUBSET Records, NEW clock \in Scalars,
             NEW signals \in SUBSET Signals, NEW reported \in Seq(Events),
             NEW written \in [records -> Content],
             Work(written, clock, signals, reported)
      PROVE  TxInv(TxTypes)' /\ [Scopes!ScopesNext]_(Scopes!scopesVars)
  <2>1. /\ DOMAIN written \subseteq Records
        /\ \A k \in DOMAIN written : written[k] \in Content /\ state[k] \in Content
    BY <1>1
  <2>2. TypedWork(TxTypes, written, clock, signals, reported)
    BY <1>3, <1>6, <2>1 DEF TypedWork
  <2> QED
    BY <2>2, TypedStep DEF StepOf
<1> QED
  BY <1>2, <1>4, <1>5, <1>6

\* The state, the scopes and their copies are typed, and each scope remembers
\* what its copy holds.
THEOREM TransactionRemembers == TxSpec => []TxInv(TxTypes)
<1>1. TxInit => TxInv(TxTypes)
  BY TxInitHolds DEF TxInit, States, TxTypes
<1>2. TxInv(TxTypes) /\ [TxNext]_txVars => TxInv(TxTypes)'
  BY TxStep
<1> QED
  BY <1>1, <1>2, PTL DEF TxSpec

\* A rolled back attempt leaves nothing behind, and a kept one everything: the
\* transaction that remembers first touches (tx.rs) implements one that copies.
THEOREM TransactionIsASnapshot == TxSpec => ScopesAreSnapshots
<1>1. TxInit => Scopes!ScopesInit
  BY DEF TxInit, Scopes!ScopesInit
<1>2. TxInv(TxTypes) /\ [TxNext]_txVars => [Scopes!ScopesNext]_(Scopes!scopesVars)
  BY TxStep
<1> QED
  BY <1>1, <1>2, TransactionRemembers, PTL DEF TxSpec, ScopesAreSnapshots, Scopes!ScopesSpec

-----------------------------------------------------------------------------
(* The story.  What its commands write is of no type fixed in advance, so  *)
(* the types grow with what is written.                                    *)

TxRemembers == \E T : TxInv(T)

IsState(records) == records = [k \in Records |-> records[k]]

\* A step of whatever records, values and reports.
AnyStep ==
    \/ EnterScope \/ KeepScope \/ UndoScope
    \/ \E records, clock : IsState(records) /\ Resume(records, clock)
    \/ \E written, clock, signals, reported, news :
          reported \in Seq(news) /\ Work(written, clock, signals, reported)
    \/ UNCHANGED txVars

Wider(T, U) ==
    /\ T.records \subseteq U.records /\ T.values \subseteq U.values
    /\ T.scalars \subseteq U.scalars /\ T.signals \subseteq U.signals
    /\ T.events \subseteq U.events

LEMMA WiderHolds ==
    ASSUME NEW T, NEW U, TxInv(T), Wider(T, U)
    PROVE  TxInv(U)
<1>1. States(T) \subseteq States(U)
  BY DEF Wider, States
<1>2. Befores(T) \subseteq Befores(U)
  BY DEF Wider, Befores
<1>3. Scope(T) \subseteq Scope(U)
  BY <1>2 DEF Wider, Scope
<1>4. \A s \in Seq(T.events) : s \in Seq(U.events)
  BY DEF Wider
<1>5. SavedCopy(T) \subseteq SavedCopy(U)
  BY <1>1, <1>4 DEF Wider, SavedCopy
<1>6. scopes \in Seq(Scope(U)) /\ copies \in Seq(SavedCopy(U))
  BY <1>3, <1>5 DEF TxInv, TxTypeOK
<1> QED
  BY <1>1, <1>4, <1>6 DEF TxInv, TxTypeOK, Wider

LEMMA AnyStepRemembers ==
    ASSUME TxRemembers, AnyStep
    PROVE  TxRemembers' /\ [Scopes!ScopesNext]_(Scopes!scopesVars)
<1>1. PICK T : TxInv(T)
  BY DEF TxRemembers
<1>2. \A U : Wider(T, U) /\ StepOf(U) => TxRemembers' /\ [Scopes!ScopesNext]_(Scopes!scopesVars)
  BY <1>1, WiderHolds, TypedStep DEF TxRemembers
<1>3. Wider(T, T)
  BY DEF Wider
<1>4. CASE EnterScope \/ KeepScope \/ UndoScope \/ UNCHANGED txVars
  BY <1>2, <1>3, <1>4 DEF StepOf
<1>5. ASSUME NEW records, NEW clock, IsState(records), Resume(records, clock)
      PROVE  \E U : Wider(T, U) /\ StepOf(U)
  <2> DEFINE U == [records |-> T.records, values |-> T.values \cup {records[k] : k \in Records},
                   scalars |-> T.scalars \cup {clock}, signals |-> T.signals,
                   events |-> T.events]
  <2>1. Wider(T, U)
    BY DEF Wider
  <2>2. clock \in U.scalars /\ \A k \in Records : records[k] \in U.values
    OBVIOUS
  <2> HIDE DEF U
  <2>4. records \in States(U)
    BY <1>5, <2>2 DEF States, IsState
  <2>3. StepOf(U)
    BY <1>5, <2>2, <2>4 DEF StepOf
  <2> QED BY <2>1, <2>3
<1>6. ASSUME NEW written, NEW clock, NEW signals, NEW reported, NEW news,
             reported \in Seq(news), Work(written, clock, signals, reported)
      PROVE  \E U : Wider(T, U) /\ StepOf(U)
  <2> DEFINE now == {state[k] : k \in DOMAIN written}
             next == {written[k] : k \in DOMAIN written}
             U == [records |-> T.records \cup DOMAIN written,
                   values |-> T.values \cup now \cup next,
                   scalars |-> T.scalars \cup {clock}, signals |-> T.signals \cup signals,
                   events |-> T.events \cup news]
  <2>1. Wider(T, U)
    BY DEF Wider
  <2>2. /\ clock \in U.scalars /\ signals \in SUBSET U.signals
        /\ DOMAIN written \subseteq U.records
        /\ \A k \in DOMAIN written : written[k] \in U.values /\ state[k] \in U.values
    OBVIOUS
  <2>3. news \subseteq U.events
    OBVIOUS
  <2> HIDE DEF U
  <2>4. reported \in Seq(U.events)
    BY <1>6, <2>3
  <2>5. TypedWork(U, written, clock, signals, reported)
    BY <1>6, <2>2, <2>4 DEF TypedWork
  <2> QED BY <2>1, <2>5 DEF StepOf
<1> QED
  BY <1>2, <1>4, <1>5, <1>6 DEF AnyStep

-----------------------------------------------------------------------------
(* A step of the session is one of its transaction.                         *)

LEMMA StateIsState ==
    ASSUME TxRemembers
    PROVE  IsState(state)
BY DEF TxRemembers, TxInv, TxTypeOK, States, IsState

LEMMA NewStateIsState == IsState(NewState)
BY DEF NewState, IsState

LEMMA SilentWork ==
    ASSUME NEW written, NEW clock, NEW signals, Work(written, clock, signals, <<>>)
    PROVE  AnyStep
<1>1. <<>> \in Seq({})
  OBVIOUS
<1> QED
  BY <1>1, Zenon DEF AnyStep

LEMMA ReportingWork ==
    ASSUME NEW written, NEW clock, NEW signals, NEW event, Work(written, clock, signals, <<event>>)
    PROVE  AnyStep
<1>1. <<event>> \in Seq({event})
  OBVIOUS
<1> QED
  BY <1>1, Zenon DEF AnyStep

LEMMA DoesSilently ==
    ASSUME NEW written, NEW signals, Does(written, signals, <<>>)
    PROVE  AnyStep
BY SilentWork DEF Does

LEMMA DoesReporting ==
    ASSUME NEW written, NEW signals, NEW event, Does(written, signals, <<event>>)
    PROVE  AnyStep
BY ReportingWork DEF Does

LEMMA CommandsAreSteps ==
    ASSUME Commands
    PROVE  AnyStep
<1>1. \A steps : Command(steps) => AnyStep
  BY DEF Command, Transact, AnyStep
<1> QED
  BY <1>1 DEF Commands, StartDialogue, AdvanceLine, InterruptDialogue, Observe, MoveFailed, PassTime

LEMMA SessionWorkIsAStep ==
    ASSUME SessionWork
    PROVE  AnyStep
<1>1. CASE TakeTurns
  BY <1>1, DoesSilently DEF TakeTurns
<1>2. CASE Announce
  BY <1>2, DoesSilently DEF Announce
<1>3. CASE Commit \/ KeepAttempt
  BY <1>3 DEF Commit, KeepAttempt, AnyStep
<1>4. CASE ReportEvent
  BY <1>4, DoesReporting DEF ReportEvent
<1>5. CASE UndoAttempt \/ RollBack
  BY <1>5 DEF UndoAttempt, RollBack, AnyStep
<1>6. CASE SetVariable \/ FlipVariable
  BY <1>6, DoesSilently DEF SetVariable, FlipVariable
<1>7. CASE RequestMove
  BY <1>7, DoesSilently, DoesReporting DEF RequestMove
<1>8. CASE QueueStart
  BY <1>8, DoesSilently DEF QueueStart
<1>9. CASE BeginTalk
  BY <1>9, DoesReporting DEF BeginTalk
<1>10. CASE PresentLine \/ InterruptTalk
  BY <1>10, DoesSilently DEF PresentLine, InterruptTalk
<1>11. CASE ObserveAreas
  BY <1>11, DoesSilently, DoesReporting DEF ObserveAreas
<1>12. CASE FailMove
  BY <1>12, DoesReporting DEF FailMove
<1>13. CASE AdvanceTime
  BY <1>13, SilentWork DEF AdvanceTime
<1>14. CASE ProcessNext
  BY <1>14 DEF ProcessNext, Transact, AnyStep
<1>15. CASE DropNext
  BY <1>15 DEF DropNext, Transact, AnyStep
<1>16. CASE PopWork \/ ForgetMove \/ MarkFired
  BY <1>16, DoesSilently DEF PopWork, ForgetMove, MarkFired
<1>17. CASE Settled
  BY <1>17 DEF Settled, AnyStep
<1>18. CASE TryTrigger
  BY <1>18, DoesSilently DEF TryTrigger, Attempt, AnyStep
<1>19. CASE StartTalk
  BY <1>19, DoesReporting DEF StartTalk, Attempt, AnyStep
<1> QED
  BY <1>1, <1>2, <1>3, <1>4, <1>5, <1>6, <1>7, <1>8, <1>9, <1>10, <1>11, <1>12, <1>13,
     <1>14, <1>15, <1>16, <1>17, <1>18, <1>19 DEF SessionWork

-----------------------------------------------------------------------------
(* Sequences built from the left.                                          *)

\* What holds of 0 and is passed on from each number to the next.
LEMMA UpTo ==
    ASSUME NEW N \in Nat, NEW Good, 0 \in Good,
           \A n \in 1 .. N : n - 1 \in Good => n \in Good
    PROVE  \A n \in 0 .. N : n \in Good
<1> DEFINE Bad == (0 .. N) \ Good
<1>1. SUFFICES ASSUME Bad # {} PROVE FALSE
  OBVIOUS
<1>2. IsWellFoundedOn(OpToRel(<, Nat), Nat)
  BY NatLessThanWellFounded
<1>3. Bad \subseteq Nat
  OBVIOUS
<1> HIDE DEF Bad
<1>4. PICK n \in Bad : \A m \in Bad : <<m, n>> \notin OpToRel(<, Nat)
  BY <1>1, <1>2, <1>3, WFMin, Zenon
<1>5. n \in Nat /\ \A m \in Bad : ~(m < n)
  BY <1>3, <1>4 DEF OpToRel
<1>6. n \in 1 .. N /\ n - 1 \in 0 .. N /\ n - 1 < n
  BY <1>5 DEF Bad
<1> QED BY <1>5, <1>6 DEF Bad

\* The successive results of applying steps, each to the one before.
Iteration(base, step, N, f) ==
    f[0] = base /\ \A n \in 1 .. N : f[n] = step[n][f[n - 1]]

LEMMA IterationExists ==
    ASSUME NEW X, NEW base \in X, NEW N \in Nat, NEW step \in [1 .. N -> [X -> X]]
    PROVE  \E f \in [0 .. N -> X] : Iteration(base, step, N, f)
<1> DEFINE Follows(k, f) == f[0] = base /\ \A n \in 1 .. k : f[n] = step[n][f[n - 1]]
           Good == {k \in 0 .. N : \E f \in [0 .. N -> X] : Follows(k, f)}
<1>1. 0 \in Good
  <2> DEFINE f == [n \in 0 .. N |-> base]
  <2>1. f \in [0 .. N -> X] /\ Follows(0, f)
    OBVIOUS
  <2>2. 0 \in 0 .. N
    OBVIOUS
  <2> HIDE DEF f, Follows
  <2> QED BY <2>1, <2>2
<1>2. ASSUME NEW k \in 1 .. N, k - 1 \in Good
      PROVE  k \in Good
  <2>1. PICK f \in [0 .. N -> X] : Follows(k - 1, f)
    BY <1>2
  <2>2. k \in 0 .. N /\ k - 1 \in 0 .. N
    OBVIOUS
  <2>3. step[k][f[k - 1]] \in X
    BY <2>2
  <2> DEFINE g == [f EXCEPT ![k] = step[k][f[k - 1]]]
  <2>4. /\ g \in [0 .. N -> X] /\ g[k] = step[k][f[k - 1]]
        /\ \A n \in 0 .. k - 1 : g[n] = f[n]
    BY <2>2, <2>3
  <2> HIDE DEF g
  <2>5. \A n \in 1 .. k : n - 1 \in 0 .. k - 1 /\ (n = k \/ (n \in 1 .. k - 1 /\ n \in 0 .. k - 1))
    OBVIOUS
  <2>6. g[0] = base
    BY <2>1, <2>4
  <2>7. ASSUME NEW n \in 1 .. k PROVE g[n] = step[n][g[n - 1]]
    BY <2>1, <2>4, <2>5
  <2>8. Follows(k, g)
    BY <2>6, <2>7
  <2> HIDE DEF Follows
  <2> QED BY <2>2, <2>4, <2>8
<1> HIDE DEF Good
<1>3. N \in Good
  <2>1. \A n \in 0 .. N : n \in Good
    BY <1>1, <1>2, UpTo, Zenon
  <2> QED BY <2>1
<1>4. PICK f \in [0 .. N -> X] : Follows(N, f)
  BY <1>3 DEF Good
<1> QED BY <1>4 DEF Iteration

-----------------------------------------------------------------------------
(* Queues.                                                                 *)

LEMMA QueuedBehind ==
    ASSUME NEW C, NEW q \in Seq(C), IsInjective(q), NEW c \in C, c \notin ToSet(q)
    PROVE  /\ Append(q, c) \in Seq(C) /\ IsInjective(Append(q, c))
           /\ ToSet(Append(q, c)) = ToSet(q) \cup {c}
<1>1. /\ Append(q, c) \in Seq(C) /\ Len(q) \in Nat /\ DOMAIN q = 1 .. Len(q)
      /\ DOMAIN Append(q, c) = 1 .. Len(q) + 1
      /\ \A i \in 1 .. Len(q) : Append(q, c)[i] = q[i]
      /\ Append(q, c)[Len(q) + 1] = c
  BY AppendProperties
<1>2. \A i \in 1 .. Len(q) : q[i] # c
  BY <1>1 DEF ToSet
<1>3. \A i \in 1 .. Len(q) + 1 : i \in 1 .. Len(q) \/ i = Len(q) + 1
  BY <1>1
<1>4. Len(q) + 1 \in 1 .. Len(q) + 1 /\ \A i \in 1 .. Len(q) : i \in 1 .. Len(q) + 1
  BY <1>1
<1> QED BY <1>1, <1>2, <1>3, <1>4 DEF IsInjective, ToSet

\* The queue without c has the same members but c, each once.
LEMMA RetainedIs ==
    ASSUME NEW C, NEW q \in Seq(C), IsInjective(q), NEW c
    PROVE  /\ Retained(q, c) \in Seq(C) /\ IsInjective(Retained(q, c))
           /\ ToSet(Retained(q, c)) = ToSet(q) \ {c}
<1> DEFINE N == Len(q)
           step == [n \in 1 .. N |-> [s \in Seq(C) |-> IF q[n] = c THEN s ELSE Append(s, q[n])]]
           kept == CHOOSE f : f = [n \in 0 .. N |->
                      IF n = 0 THEN <<>> ELSE IF q[n] = c THEN f[n - 1] ELSE Append(f[n - 1], q[n])]
<1>1. N \in Nat /\ DOMAIN q = 1 .. N /\ <<>> \in Seq(C) /\ \A n \in 1 .. N : q[n] \in C
  OBVIOUS
<1>2. step \in [1 .. N -> [Seq(C) -> Seq(C)]]
  BY <1>1
<1>3. PICK f \in [0 .. N -> Seq(C)] : Iteration(<<>>, step, N, f)
  <2> HIDE DEF step
  <2> QED BY <1>1, <1>2, IterationExists
<1>4. \A n \in 0 .. N : n = 0 \/ (n \in 1 .. N /\ n - 1 \in 0 .. N)
  BY <1>1
<1>5. f = [n \in 0 .. N |->
             IF n = 0 THEN <<>> ELSE IF q[n] = c THEN f[n - 1] ELSE Append(f[n - 1], q[n])]
  <2>1. f[0] = <<>> /\ \A n \in 1 .. N : f[n] = step[n][f[n - 1]]
    BY <1>3 DEF Iteration
  <2>2. ASSUME NEW n \in 1 .. N
        PROVE  f[n] = IF q[n] = c THEN f[n - 1] ELSE Append(f[n - 1], q[n])
    <3>1. f[n - 1] \in Seq(C)
      BY <1>1, <1>4
    <3> QED BY <2>1, <3>1
  <2>3. ASSUME NEW n \in 0 .. N
        PROVE  f[n] = IF n = 0 THEN <<>>
                      ELSE IF q[n] = c THEN f[n - 1] ELSE Append(f[n - 1], q[n])
    BY <1>1, <1>4, <2>1, <2>2
  <2>4. f = [n \in 0 .. N |-> f[n]]
    OBVIOUS
  <2> QED BY <2>3, <2>4, Zenon
<1>6. kept = [n \in 0 .. N |->
             IF n = 0 THEN <<>> ELSE IF q[n] = c THEN kept[n - 1] ELSE Append(kept[n - 1], q[n])]
  BY <1>5
<1>7. Retained(q, c) = kept[N]
  BY DEF Retained
<1> DEFINE Good(n) == /\ kept[n] \in Seq(C) /\ IsInjective(kept[n])
                      /\ ToSet(kept[n]) = {q[i] : i \in 1 .. n} \ {c}
<1> HIDE DEF kept, step
<1>8. kept[0] = <<>> /\ \A n \in 1 .. N : kept[n] =
             IF q[n] = c THEN kept[n - 1] ELSE Append(kept[n - 1], q[n])
  <2>1. \A n \in 1 .. N : n \in 0 .. N /\ n # 0
    BY <1>1
  <2>2. 0 \in 0 .. N
    BY <1>1
  <2>3. \A n \in 0 .. N : kept[n] =
             IF n = 0 THEN <<>> ELSE IF q[n] = c THEN kept[n - 1] ELSE Append(kept[n - 1], q[n])
    BY <1>6, Zenon
  <2> QED BY <2>1, <2>2, <2>3, Zenon
<1>9. Good(0)
  <2>1. {q[i] : i \in 1 .. 0} = {}
    OBVIOUS
  <2> QED BY <1>1, <1>8, <2>1 DEF IsInjective, ToSet
<1>10. ASSUME NEW k \in 1 .. N, Good(k - 1) PROVE Good(k)
  <2>1. {q[i] : i \in 1 .. k} = {q[i] : i \in 1 .. k - 1} \cup {q[k]}
    OBVIOUS
  <2>2. CASE q[k] = c
    <3>1. kept[k] = kept[k - 1]
      BY <1>8, <2>2
    <3>2. {q[i] : i \in 1 .. k} \ {c} = {q[i] : i \in 1 .. k - 1} \ {c}
      BY <2>1, <2>2
    <3> QED BY <1>10, <3>1, <3>2
  <2>3. CASE q[k] # c
    <3>1. kept[k] = Append(kept[k - 1], q[k])
      BY <1>8, <2>3
    <3>2. q[k] \notin {q[i] : i \in 1 .. k - 1}
      BY <1>1 DEF IsInjective
    <3>3. q[k] \in C /\ q[k] \notin ToSet(kept[k - 1])
      BY <1>1, <1>10, <3>2
    <3>4. /\ Append(kept[k - 1], q[k]) \in Seq(C) /\ IsInjective(Append(kept[k - 1], q[k]))
          /\ ToSet(Append(kept[k - 1], q[k])) = ToSet(kept[k - 1]) \cup {q[k]}
      <4>1. kept[k - 1] \in Seq(C) /\ IsInjective(kept[k - 1])
        BY <1>10
      <4>2. ASSUME NEW s \in Seq(C), IsInjective(s), NEW e \in C, e \notin ToSet(s)
            PROVE  /\ Append(s, e) \in Seq(C) /\ IsInjective(Append(s, e))
                   /\ ToSet(Append(s, e)) = ToSet(s) \cup {e}
        BY <4>2, QueuedBehind
      <4> HIDE DEF Good, N
      <4> QED BY <3>3, <4>1, <4>2
    <3>5. {q[i] : i \in 1 .. k} \ {c} = ({q[i] : i \in 1 .. k - 1} \ {c}) \cup {q[k]}
      BY <2>1, <2>3
    <3> QED BY <1>10, <3>1, <3>4, <3>5
  <2> QED BY <2>2, <2>3
<1> HIDE DEF Good
<1>11. Good(N)
  <2> DEFINE S == {n \in 0 .. N : Good(n)}
  <2>1. 0 \in S /\ \A n \in 1 .. N : n - 1 \in S => n \in S
    BY <1>1, <1>9, <1>10
  <2>2. N \in 0 .. N
    BY <1>1
  <2> HIDE DEF S
  <2>3. \A n \in 0 .. N : n \in S
    BY <1>1, <2>1, UpTo, Zenon
  <2> QED BY <2>2, <2>3 DEF S
<1>12. {q[i] : i \in 1 .. N} = ToSet(q)
  BY <1>1 DEF ToSet
<1> QED BY <1>7, <1>11, <1>12 DEF Good

-----------------------------------------------------------------------------
(* The floor.                                                              *)

UnderWay(records, c) == records[Talk(c)] # None /\ records[Talk(c)].status = "active"

FloorHolds(records) ==
    /\ records[Floor] \in [Modes -> Seq(Conversations)]
    /\ \A m \in Modes :
          /\ IsInjective(records[Floor][m])
          /\ ToSet(records[Floor][m]) = {c \in Conversations : ModeOf[c] = m /\ UnderWay(records, c)}

\* Each conversation at most once and in the queue of its kind.
Queues ==
    {q \in [Modes -> Seq(Conversations)] :
       \A m \in Modes : IsInjective(q[m]) /\ \A c \in ToSet(q[m]) : ModeOf[c] = m}

Waits(q, c) == c \in ToSet(q[ModeOf[c]])

\* A turn taken or given up by one conversation leaves the others theirs.
LEMMA TurnIs ==
    ASSUME NEW q \in Queues, NEW c \in Conversations
    PROVE  /\ Turns(q, c) \in Queues
           /\ Waits(Turns(q, c), c) <=> Active(c)
           /\ \A k \in Conversations \ {c} : Waits(Turns(q, c), k) <=> Waits(q, k)
<1> DEFINE m == ModeOf[c]
<1>1. /\ m \in Modes /\ q \in [Modes -> Seq(Conversations)] /\ q[m] \in Seq(Conversations)
      /\ IsInjective(q[m]) /\ \A k \in ToSet(q[m]) : ModeOf[k] = m
      /\ \A k \in Conversations : ModeOf[k] \in Modes
  BY ContentAssumption DEF Queues
<1>2. (\E i \in DOMAIN q[m] : q[m][i] = c) <=> Waits(q, c)
  BY DEF Waits, ToSet
<1>3. ASSUME NEW s \in Seq(Conversations), IsInjective(s), \A k \in ToSet(s) : ModeOf[k] = m,
             \A k \in Conversations \ {c} : k \in ToSet(s) <=> k \in ToSet(q[m]),
             c \in ToSet(s) <=> Active(c), Turns(q, c) = [q EXCEPT ![m] = s]
      PROVE  /\ Turns(q, c) \in Queues
             /\ Waits(Turns(q, c), c) <=> Active(c)
             /\ \A k \in Conversations \ {c} : Waits(Turns(q, c), k) <=> Waits(q, k)
  <2>1. /\ Turns(q, c) \in [Modes -> Seq(Conversations)] /\ Turns(q, c)[m] = s
        /\ \A other \in Modes \ {m} : Turns(q, c)[other] = q[other]
    <3> HIDE DEF m
    <3> QED BY <1>1, <1>3
  <2>2. Turns(q, c) \in Queues
    BY <1>1, <1>3, <2>1 DEF Queues
  <2> QED BY <1>1, <1>3, <2>1, <2>2 DEF Waits
<1>4. CASE Active(c) /\ ~Waits(q, c)
  <2>1. Turns(q, c) = [q EXCEPT ![m] = Append(q[m], c)]
    BY <1>1, <1>2, <1>4 DEF Turns
  <2>2. /\ Append(q[m], c) \in Seq(Conversations) /\ IsInjective(Append(q[m], c))
        /\ ToSet(Append(q[m], c)) = ToSet(q[m]) \cup {c}
    BY <1>1, <1>4, QueuedBehind DEF Waits
  <2> QED BY <1>1, <1>3, <1>4, <2>1, <2>2
<1>5. CASE ~Active(c) /\ Waits(q, c)
  <2>1. Turns(q, c) = [q EXCEPT ![m] = Retained(q[m], c)]
    BY <1>1, <1>2, <1>5 DEF Turns
  <2>2. /\ Retained(q[m], c) \in Seq(Conversations) /\ IsInjective(Retained(q[m], c))
        /\ ToSet(Retained(q[m], c)) = ToSet(q[m]) \ {c}
    BY <1>1, RetainedIs
  <2> QED BY <1>1, <1>3, <1>5, <2>1, <2>2
<1>6. CASE Active(c) <=> Waits(q, c)
  <2>1. Turns(q, c) = q
    BY <1>2, <1>6 DEF Turns
  <2> QED BY <1>6, <2>1
<1> QED BY <1>4, <1>5, <1>6

\* A finite set as a sequence has its elements.
LEMMA SetToSeqIs ==
    ASSUME NEW S, IsFiniteSet(S)
    PROVE  /\ Cardinality(S) \in Nat /\ SetToSeq(S) \in Seq(S)
           /\ Len(SetToSeq(S)) = Cardinality(S) /\ ToSet(SetToSeq(S)) = S
<1> DEFINE n == Cardinality(S)
           f == SetToSeq(S)
<1>1. n \in Nat /\ ExistsBijection(1 .. n, S)
  BY FS_CardinalityType
<1>2. PICK g \in Bijection(1 .. n, S) : TRUE
  BY <1>1 DEF ExistsBijection
<1>3. g \in [1 .. n -> S] /\ IsInjective(g)
  BY <1>2 DEF Bijection, Injection, IsInjective
<1>4. f \in [1 .. n -> S] /\ IsInjective(f)
  BY <1>3 DEF SetToSeq
<1> HIDE DEF f
<1>5. f \in Injection(1 .. n, S)
  BY <1>4 DEF Injection, IsInjective
<1>6. IsFiniteSet(1 .. n) /\ Cardinality(1 .. n) = n
  BY <1>1, FS_Interval
<1>7. f \in Surjection(1 .. n, S)
  BY <1>5, <1>6, FS_Injection
<1>8. f \in Seq(S) /\ Len(f) = n
  BY <1>1, <1>4
<1>9. ToSet(f) = S
  BY <1>4, <1>7 DEF Surjection, ToSet
<1> QED BY <1>1, <1>8, <1>9 DEF f

\* After all turns are taken, of the conversations considered just those under
\* way wait, and the others wait as before.
LEMMA TurnsOfAllAre ==
    ASSUME NEW talks \in Seq(Conversations), state[Floor] \in Queues
    PROVE  /\ TurnsOfAll(talks) \in Queues
           /\ \A c \in ToSet(talks) : Waits(TurnsOfAll(talks), c) <=> Active(c)
           /\ \A c \in Conversations \ ToSet(talks) :
                Waits(TurnsOfAll(talks), c) <=> Waits(state[Floor], c)
<1> DEFINE N == Len(talks)
           step == [n \in 1 .. N |-> [q \in Queues |-> Turns(q, talks[n])]]
           queues == CHOOSE f : f = [n \in 0 .. N |->
                        IF n = 0 THEN state[Floor] ELSE Turns(f[n - 1], talks[n])]
<1>1. N \in Nat /\ DOMAIN talks = 1 .. N /\ \A n \in 1 .. N : talks[n] \in Conversations
  OBVIOUS
<1> HIDE DEF N
<1>2. step \in [1 .. N -> [Queues -> Queues]]
  BY <1>1, TurnIs
<1>3. PICK f \in [0 .. N -> Queues] : Iteration(state[Floor], step, N, f)
  <2> HIDE DEF step
  <2> QED BY <1>1, <1>2, IterationExists
<1>4. \A n \in 0 .. N : n = 0 \/ (n \in 1 .. N /\ n - 1 \in 0 .. N)
  BY <1>1
<1>5. f = [n \in 0 .. N |-> IF n = 0 THEN state[Floor] ELSE Turns(f[n - 1], talks[n])]
  <2>1. f[0] = state[Floor] /\ \A n \in 1 .. N : f[n] = step[n][f[n - 1]]
    BY <1>3 DEF Iteration
  <2>2. ASSUME NEW n \in 1 .. N PROVE f[n] = Turns(f[n - 1], talks[n])
    <3>1. f[n - 1] \in Queues
      BY <1>1, <1>4
    <3> QED BY <2>1, <3>1
  <2>3. ASSUME NEW n \in 0 .. N
        PROVE  f[n] = IF n = 0 THEN state[Floor] ELSE Turns(f[n - 1], talks[n])
    BY <1>1, <1>4, <2>1, <2>2
  <2>4. f = [n \in 0 .. N |-> f[n]]
    OBVIOUS
  <2> QED BY <2>3, <2>4, Zenon
<1>6. queues = [n \in 0 .. N |-> IF n = 0 THEN state[Floor] ELSE Turns(queues[n - 1], talks[n])]
  BY <1>5
<1>7. TurnsOfAll(talks) = queues[N]
  BY DEF TurnsOfAll, N
<1> HIDE DEF queues, step
<1>8. queues[0] = state[Floor] /\ \A n \in 1 .. N : queues[n] = Turns(queues[n - 1], talks[n])
  <2>1. 0 \in 0 .. N /\ \A n \in 1 .. N : n \in 0 .. N /\ n # 0
    BY <1>1
  <2>2. \A n \in 0 .. N : queues[n] =
           IF n = 0 THEN state[Floor] ELSE Turns(queues[n - 1], talks[n])
    BY <1>6, Zenon
  <2> QED BY <2>1, <2>2, Zenon
<1> DEFINE Seen(n) == {talks[i] : i \in 1 .. n}
           Good(n) ==
             /\ queues[n] \in Queues
             /\ \A c \in Seen(n) : Waits(queues[n], c) <=> Active(c)
             /\ \A c \in Conversations \ Seen(n) : Waits(queues[n], c) <=> Waits(state[Floor], c)
<1>9. Good(0)
  <2>1. Seen(0) = {}
    OBVIOUS
  <2> QED BY <1>8, <2>1
<1>10. ASSUME NEW k \in 1 .. N, Good(k - 1) PROVE Good(k)
  <2>1. talks[k] \in Conversations /\ queues[k] = Turns(queues[k - 1], talks[k])
    BY <1>1, <1>8
  <2>2. Seen(k) = Seen(k - 1) \cup {talks[k]}
    OBVIOUS
  <2>3. Seen(k - 1) \subseteq Conversations
    BY <1>1
  <2>4. /\ queues[k] \in Queues
        /\ Waits(queues[k], talks[k]) <=> Active(talks[k])
        /\ \A c \in Conversations \ {talks[k]} : Waits(queues[k], c) <=> Waits(queues[k - 1], c)
    BY <1>10, <2>1, TurnIs
  <2> QED BY <1>10, <2>2, <2>3, <2>4
<1>11. Seen(N) = ToSet(talks)
  BY <1>1 DEF ToSet
<1> HIDE DEF Good
<1>12. Good(N)
  <2> DEFINE S == {n \in 0 .. N : Good(n)}
  <2>1. 0 \in S /\ \A n \in 1 .. N : n - 1 \in S => n \in S
    BY <1>1, <1>9, <1>10
  <2>2. N \in 0 .. N
    BY <1>1
  <2> HIDE DEF S
  <2>3. \A n \in 0 .. N : n \in S
    BY <1>1, <2>1, UpTo, Zenon
  <2> QED BY <2>2, <2>3 DEF S
<1> QED BY <1>7, <1>11, <1>12 DEF Good

-----------------------------------------------------------------------------
(* The agenda of a transaction whose turns are not yet taken: it ends with *)
(* `Closing`, and each nested scope has its "keep" step, the innermost     *)
(* first.  What is kept of the agenda is kept from its end.                *)

Plain(step) == step.do \notin {"keep", "turns", "announce"}

Marks(list, top, d) ==
    /\ \A i \in 2 .. top : d[i] \in 2 .. Len(list) - 1 /\ list[Len(list) - d[i]].do = "keep"
    /\ \A i, j \in 2 .. top : i < j => d[i] < d[j]
    /\ \A k \in 1 .. Len(list) : list[k].do = "keep" => \E i \in 2 .. top : k = Len(list) - d[i]

Ready(list, top) ==
    /\ Len(list) >= 2
    /\ list[Len(list) - 1].do = "turns" /\ list[Len(list)].do = "announce"
    /\ \A k \in 1 .. Len(list) - 2 : list[k].do \notin {"turns", "announce"}
    /\ \E d \in [2 .. top -> Nat] : Marks(list, top, d)

\* The first e steps of list come before those of rest.
Ends(list, e, rest) ==
    /\ Len(list) \in Nat /\ Len(rest) \in Nat /\ e \in Nat /\ Len(list) = e + Len(rest)
    /\ \A k \in 1 .. Len(rest) : list[e + k] = rest[k]

LEMMA StepsDone ==
    ASSUME NEW list, NEW e, NEW rest, Ends(list, e, rest), NEW top \in Nat, Ready(list, top),
           \A k \in 1 .. e : Plain(list[k])
    PROVE  Ready(rest, top)
<1> DEFINE L == Len(list)
           R == Len(rest)
<1>0. L \in Nat /\ R \in Nat /\ e \in Nat /\ L = e + R
  BY DEF Ends
<1>1. L \in Nat /\ R \in Nat /\ e \in Nat /\ L = e + R /\ \A k \in 1 .. R : list[e + k] = rest[k]
  BY DEF Ends
<1>2. /\ L >= 2 /\ list[L - 1].do = "turns" /\ list[L].do = "announce"
      /\ \A k \in 1 .. L - 2 : list[k].do \notin {"turns", "announce"}
  BY DEF Ready
<1>3. PICK d \in [2 .. top -> Nat] : Marks(list, top, d)
  BY DEF Ready
<1>4. ~(e >= L - 1)
  <2>1. SUFFICES ASSUME e >= L - 1 PROVE FALSE
    OBVIOUS
  <2>2. L - 1 \in 1 .. e
    BY <1>1, <1>2, <2>1
  <2> QED BY <1>2, <2>2 DEF Plain
<1>5. R >= 2 /\ e + (R - 1) = L - 1 /\ R - 1 \in 1 .. R /\ R \in 1 .. R
  BY <1>1, <1>4
<1>6. rest[R - 1].do = "turns" /\ rest[R].do = "announce"
  BY <1>1, <1>2, <1>5
<1>7. ASSUME NEW k \in 1 .. R - 2 PROVE rest[k].do \notin {"turns", "announce"}
  <2>1. k \in 1 .. R /\ e + k \in 1 .. L - 2
    BY <1>1
  <2> QED BY <1>1, <1>2, <2>1
<1>8. Marks(rest, top, d)
  <2>1. ASSUME NEW i \in 2 .. top
        PROVE  d[i] \in 2 .. R - 1 /\ rest[R - d[i]].do = "keep"
    <3>1. d[i] \in 2 .. L - 1 /\ list[L - d[i]].do = "keep"
      BY <1>3 DEF Marks
    <3>2. L - d[i] \notin 1 .. e
      BY <3>1 DEF Plain
    <3>3. d[i] \in 2 .. R - 1 /\ R - d[i] \in 1 .. R /\ e + (R - d[i]) = L - d[i]
      BY <1>1, <3>1, <3>2
    <3> QED BY <1>1, <3>1, <3>3
  <2>2. ASSUME NEW k \in 1 .. R, rest[k].do = "keep"
        PROVE  \E i \in 2 .. top : k = R - d[i]
    <3>1. e + k \in 1 .. L /\ list[e + k].do = "keep"
      BY <1>1, <2>2
    <3>2. PICK i \in 2 .. top : e + k = L - d[i]
      BY <1>3, <3>1 DEF Marks
    <3>3. d[i] \in Nat
      OBVIOUS
    <3>4. k = R - d[i]
      <4>1. PICK n \in Nat : n = d[i]
        BY <3>3
      <4> HIDE DEF L, R
      <4>2. e + k = L - n
        BY <3>2, <4>1
      <4>3. k = R - n
        BY <1>0, <4>2
      <4> QED BY <4>1, <4>3
    <3> QED BY <3>4
  <2> QED BY <1>3, <2>1, <2>2 DEF Marks
<1> QED BY <1>5, <1>6, <1>7, <1>8 DEF Ready

LEMMA StepsAdded ==
    ASSUME NEW list, NEW e, NEW rest, Ends(list, e, rest), NEW top \in Nat, Ready(rest, top),
           \A k \in 1 .. e : Plain(list[k])
    PROVE  Ready(list, top)
<1> DEFINE L == Len(list)
           R == Len(rest)
<1>0. L \in Nat /\ R \in Nat /\ e \in Nat /\ L = e + R
  BY DEF Ends
<1>1. L \in Nat /\ R \in Nat /\ e \in Nat /\ L = e + R /\ \A k \in 1 .. R : list[e + k] = rest[k]
  BY DEF Ends
<1>2. /\ R >= 2 /\ rest[R - 1].do = "turns" /\ rest[R].do = "announce"
      /\ \A k \in 1 .. R - 2 : rest[k].do \notin {"turns", "announce"}
  BY DEF Ready
<1>3. PICK d \in [2 .. top -> Nat] : Marks(rest, top, d)
  BY DEF Ready
<1>4. L >= 2 /\ e + (R - 1) = L - 1 /\ R - 1 \in 1 .. R /\ R \in 1 .. R
  BY <1>1, <1>2
<1>5. list[L - 1].do = "turns" /\ list[L].do = "announce"
  BY <1>1, <1>2, <1>4
<1>6. \A k \in 1 .. L : k \in 1 .. e \/ (k - e \in 1 .. R /\ e + (k - e) = k)
  BY <1>1
<1>7. ASSUME NEW k \in 1 .. L - 2 PROVE list[k].do \notin {"turns", "announce"}
  <2>1. CASE k \in 1 .. e
    BY <2>1 DEF Plain
  <2>2. CASE k \notin 1 .. e
    <3>1. k - e \in 1 .. R - 2 /\ k - e \in 1 .. R /\ e + (k - e) = k
      BY <1>1, <2>2
    <3> QED BY <1>1, <1>2, <3>1
  <2> QED BY <2>1, <2>2
<1>8. Marks(list, top, d)
  <2>1. ASSUME NEW i \in 2 .. top
        PROVE  d[i] \in 2 .. L - 1 /\ list[L - d[i]].do = "keep"
    <3>1. d[i] \in 2 .. R - 1 /\ rest[R - d[i]].do = "keep"
      BY <1>3 DEF Marks
    <3>2. d[i] \in 2 .. L - 1 /\ R - d[i] \in 1 .. R /\ e + (R - d[i]) = L - d[i]
      BY <1>1, <3>1
    <3> QED BY <1>1, <3>1, <3>2
  <2>2. ASSUME NEW k \in 1 .. L, list[k].do = "keep"
        PROVE  \E i \in 2 .. top : k = L - d[i]
    <3>1. k \notin 1 .. e
      BY <2>2 DEF Plain
    <3>2. k - e \in 1 .. R /\ e + (k - e) = k
      BY <1>6, <3>1
    <3>3. rest[k - e].do = "keep"
      <4>1. list[e + (k - e)] = rest[k - e]
        BY <1>1, <3>2
      <4>2. list[e + (k - e)] = list[k]
        BY <3>2
      <4> QED BY <2>2, <4>1, <4>2
    <3>4. PICK i \in 2 .. top : k - e = R - d[i]
      BY <1>3, <3>2, <3>3 DEF Marks
    <3>5. d[i] \in Nat
      OBVIOUS
    <3>6. k = L - d[i]
      <4>1. PICK n \in Nat : n = d[i]
        BY <3>5
      <4> HIDE DEF L, R
      <4>2. k - e = R - n
        BY <3>4, <4>1
      <4>3. k = L - n
        BY <1>0, <4>2
      <4> QED BY <4>1, <4>3
    <3> QED BY <3>6
  <2> QED BY <1>3, <2>1, <2>2 DEF Marks
<1> QED BY <1>4, <1>5, <1>7, <1>8 DEF Ready

\* A scope begins: its "keep" step comes before what was left.
LEMMA ScopeAdded ==
    ASSUME NEW list, NEW rest, Ends(list, 1, rest), NEW top \in Nat, top >= 1, Ready(rest, top),
           list[1].do = "keep"
    PROVE  Ready(list, top + 1)
<1> DEFINE L == Len(list)
           R == Len(rest)
<1>0. L \in Nat /\ R \in Nat /\ L = 1 + R
  BY DEF Ends
<1>1. L \in Nat /\ R \in Nat /\ L = 1 + R /\ \A k \in 1 .. R : list[1 + k] = rest[k]
  BY DEF Ends
<1>2. /\ R >= 2 /\ rest[R - 1].do = "turns" /\ rest[R].do = "announce"
      /\ \A k \in 1 .. R - 2 : rest[k].do \notin {"turns", "announce"}
  BY DEF Ready
<1>3. PICK d \in [2 .. top -> Nat] : Marks(rest, top, d)
  BY DEF Ready
<1> DEFINE more == [i \in 2 .. top + 1 |-> IF i = top + 1 THEN R ELSE d[i]]
<1>4. /\ more \in [2 .. top + 1 -> Nat] /\ more[top + 1] = R
      /\ \A i \in 2 .. top : more[i] = d[i]
  BY <1>1
<1> HIDE DEF more
<1>5. L >= 2 /\ 1 + (R - 1) = L - 1 /\ R - 1 \in 1 .. R /\ R \in 1 .. R
  BY <1>1, <1>2
<1>6. list[L - 1].do = "turns" /\ list[L].do = "announce"
  BY <1>1, <1>2, <1>5
<1>7. ASSUME NEW k \in 1 .. L PROVE k = 1 \/ (k - 1 \in 1 .. R /\ list[k] = rest[k - 1])
  <2>1. k = 1 \/ (k - 1 \in 1 .. R /\ 1 + (k - 1) = k)
    BY <1>1
  <2> QED BY <1>1, <2>1
<1>8. ASSUME NEW k \in 1 .. L - 2 PROVE list[k].do \notin {"turns", "announce"}
  <2>1. k \in 1 .. L /\ (k # 1 => k - 1 \in 1 .. R - 2)
    BY <1>1
  <2> QED BY <1>2, <1>7, <2>1
<1>9. \A i \in 2 .. top + 1 : i = top + 1 \/ i \in 2 .. top
  OBVIOUS
<1>10. \A i \in 2 .. top : d[i] \in 2 .. R - 1 /\ rest[R - d[i]].do = "keep"
  BY <1>3 DEF Marks
<1>11. ASSUME NEW i \in 2 .. top + 1
       PROVE  more[i] \in 2 .. L - 1 /\ list[L - more[i]].do = "keep"
  <2>1. CASE i = top + 1
    <3>1. R \in 2 .. L - 1 /\ L - R = 1
      BY <1>1, <1>2
    <3> QED BY <1>4, <2>1, <3>1
  <2>2. CASE i \in 2 .. top
    <3>1. d[i] \in 2 .. L - 1 /\ R - d[i] \in 1 .. R /\ 1 + (R - d[i]) = L - d[i]
      <4>1. PICK n \in 2 .. R - 1 : n = d[i]
        BY <1>10, <2>2
      <4> HIDE DEF L, R
      <4>2. n \in 2 .. L - 1 /\ R - n \in 1 .. R /\ 1 + (R - n) = L - n
        BY <1>0
      <4> QED BY <4>1, <4>2
    <3>2. list[1 + (R - d[i])] = rest[R - d[i]]
      BY <1>1, <3>1
    <3>3. list[1 + (R - d[i])] = list[L - d[i]]
      BY <3>1
    <3>4. rest[R - d[i]].do = "keep" /\ more[i] = d[i]
      BY <1>4, <1>10, <2>2
    <3> QED BY <3>1, <3>2, <3>3, <3>4
  <2> QED BY <1>9, <2>1, <2>2
<1>12. ASSUME NEW i \in 2 .. top + 1, NEW j \in 2 .. top + 1, i < j
       PROVE  more[i] < more[j]
  <2>1. i \in 2 .. top /\ d[i] < R
    BY <1>1, <1>9, <1>10, <1>12
  <2>2. CASE j = top + 1
    BY <1>4, <2>1, <2>2
  <2>3. CASE j \in 2 .. top
    BY <1>3, <1>4, <1>12, <2>1, <2>3 DEF Marks
  <2> QED BY <1>9, <2>2, <2>3
<1>13. ASSUME NEW k \in 1 .. L, list[k].do = "keep"
       PROVE  \E i \in 2 .. top + 1 : k = L - more[i]
  <2>1. CASE k = 1
    <3>1. top + 1 \in 2 .. top + 1 /\ 1 = L - more[top + 1]
      BY <1>1, <1>4
    <3> QED BY <2>1, <3>1
  <2>2. CASE k - 1 \in 1 .. R /\ list[k] = rest[k - 1]
    <3>1. PICK i \in 2 .. top : k - 1 = R - d[i]
      BY <1>3, <1>13, <2>2 DEF Marks
    <3>2. d[i] \in Nat /\ i \in 2 .. top + 1 /\ more[i] = d[i]
      BY <1>4
    <3>3. k = L - more[i]
      BY <1>1, <3>1, <3>2
    <3> QED BY <3>2, <3>3
  <2> QED BY <1>7, <2>1, <2>2
<1>14. Marks(list, top + 1, more)
  BY <1>11, <1>12, <1>13 DEF Marks
<1> QED BY <1>4, <1>5, <1>6, <1>8, <1>14 DEF Ready

\* The innermost scope ends: the steps before its "keep" step are left out with it.
LEMMA ScopeDone ==
    ASSUME NEW list, NEW e, NEW rest, Ends(list, e, rest), e >= 1,
           NEW top \in Nat, Ready(list, top), list[e].do = "keep",
           \A k \in 1 .. e - 1 : list[k].do # "keep"
    PROVE  top > 1 /\ Ready(rest, top - 1)
<1> DEFINE L == Len(list)
           R == Len(rest)
<1>0. L \in Nat /\ R \in Nat /\ e \in Nat /\ L = e + R
  BY DEF Ends
<1>1. L \in Nat /\ R \in Nat /\ e \in Nat /\ L = e + R /\ \A k \in 1 .. R : list[e + k] = rest[k]
  BY DEF Ends
<1>2. /\ L >= 2 /\ list[L - 1].do = "turns" /\ list[L].do = "announce"
      /\ \A k \in 1 .. L - 2 : list[k].do \notin {"turns", "announce"}
  BY DEF Ready
<1>3. PICK d \in [2 .. top -> Nat] : Marks(list, top, d)
  BY DEF Ready
<1>4. \A i \in 2 .. top : d[i] \in 2 .. L - 1 /\ list[L - d[i]].do = "keep"
  BY <1>3 DEF Marks
<1>5. PICK last \in 2 .. top : e = L - d[last]
  <2>1. e \in 1 .. L
    BY <1>1
  <2> QED BY <1>3, <2>1 DEF Marks
<1>6. d[last] = R /\ R \in 2 .. L - 1
  <2>1. d[last] \in 2 .. L - 1
    BY <1>4
  <2> HIDE DEF L, R
  <2>2. d[last] = L - e
    BY <1>0, <1>5, <2>1
  <2> QED BY <1>0, <2>1, <2>2
<1>7. \A i \in 2 .. top : d[i] <= R
  <2>1. ASSUME NEW i \in 2 .. top, d[i] > R PROVE FALSE
    <3>1. L - d[i] \in 1 .. e - 1
      BY <1>1, <1>4, <2>1
    <3> QED BY <1>4, <3>1
  <2>2. \A i \in 2 .. top : d[i] \in Nat
    OBVIOUS
  <2> QED BY <1>1, <2>1, <2>2
<1>8. last = top
  <2>1. SUFFICES ASSUME last < top PROVE FALSE
    OBVIOUS
  <2>2. top \in 2 .. top
    OBVIOUS
  <2>3. d[last] < d[top]
    BY <1>3, <2>1, <2>2 DEF Marks
  <2> QED BY <1>6, <1>7, <2>2, <2>3
<1> DEFINE fewer == [i \in 2 .. top - 1 |-> d[i]]
<1>9. /\ top > 1 /\ fewer \in [2 .. top - 1 -> Nat] /\ \A i \in 2 .. top - 1 : fewer[i] = d[i]
      /\ \A i \in 2 .. top - 1 : i \in 2 .. top
  BY <1>8
<1> HIDE DEF fewer
<1>10. \A i \in 2 .. top - 1 : d[i] < R
  <2>1. \A i \in 2 .. top - 1 : i < top
    BY <1>9
  <2> QED BY <1>3, <1>6, <1>8, <1>9, <2>1 DEF Marks
<1>11. e + (R - 1) = L - 1 /\ R - 1 \in 1 .. R /\ R \in 1 .. R
  BY <1>1, <1>6
<1>12. rest[R - 1].do = "turns" /\ rest[R].do = "announce"
  BY <1>1, <1>2, <1>11
<1>13. ASSUME NEW k \in 1 .. R - 2 PROVE rest[k].do \notin {"turns", "announce"}
  <2>1. k \in 1 .. R /\ e + k \in 1 .. L - 2
    BY <1>1
  <2> QED BY <1>1, <1>2, <2>1
<1>14. Marks(rest, top - 1, fewer)
  <2>1. ASSUME NEW i \in 2 .. top - 1
        PROVE  fewer[i] \in 2 .. R - 1 /\ rest[R - fewer[i]].do = "keep"
    <3>1. d[i] \in 2 .. R - 1 /\ R - d[i] \in 1 .. R /\ e + (R - d[i]) = L - d[i]
      <4>1. PICK n \in 2 .. L - 1 : n = d[i] /\ n < R
        BY <1>4, <1>9, <1>10
      <4> HIDE DEF L, R
      <4>2. n \in 2 .. R - 1 /\ R - n \in 1 .. R /\ e + (R - n) = L - n
        BY <1>0, <4>1
      <4> QED BY <4>1, <4>2
    <3>2. list[L - d[i]].do = "keep"
      BY <1>4, <1>9
    <3> QED BY <1>1, <1>9, <3>1, <3>2
  <2>2. ASSUME NEW k \in 1 .. R, rest[k].do = "keep"
        PROVE  \E i \in 2 .. top - 1 : k = R - fewer[i]
    <3>1. e + k \in 1 .. L /\ list[e + k].do = "keep"
      BY <1>1, <2>2
    <3>2. PICK i \in 2 .. top : e + k = L - d[i]
      BY <1>3, <3>1 DEF Marks
    <3>3. d[i] \in Nat
      OBVIOUS
    <3>4. i # top
      BY <1>1, <1>6, <1>8, <3>2, <3>3
    <3>5. i \in 2 .. top - 1
      BY <3>4
    <3>6. k = R - fewer[i]
      <4>1. PICK n \in Nat : n = d[i] /\ n = fewer[i]
        BY <1>9, <3>3, <3>5
      <4> HIDE DEF L, R
      <4>2. e + k = L - n
        BY <3>2, <4>1
      <4>3. k = R - n
        BY <1>0, <4>2
      <4> QED BY <4>1, <4>3
    <3> QED BY <3>5, <3>6
  <2>3. \A i, j \in 2 .. top - 1 : i < j => fewer[i] < fewer[j]
    <3>1. \A i, j \in 2 .. top : i < j => d[i] < d[j]
      BY <1>3 DEF Marks
    <3> TAKE i, j \in 2 .. top - 1
    <3>2. i \in 2 .. top /\ j \in 2 .. top /\ fewer[i] = d[i] /\ fewer[j] = d[j]
      BY <1>9
    <3> QED BY <3>1, <3>2
  <2> QED BY <2>1, <2>2, <2>3 DEF Marks
<1>15. \E marks \in [2 .. top - 1 -> Nat] : Marks(rest, top - 1, marks)
  BY <1>9, <1>14, Zenon
<1>16. Len(rest) >= 2
  BY <1>6
<1> QED BY <1>9, <1>12, <1>13, <1>15, <1>16 DEF Ready

-----------------------------------------------------------------------------
(* What each kind of step does to the agenda.                              *)

\* What a step names is there.
Sound(step) ==
    /\ step.do = "try" => step.trigger \in Triggers
    /\ step.do = "present" => step.line \in Nat \ {0}

IsList(list) == \E S : list \in Seq(S) /\ \A step \in S : Sound(step)

LEMMA RestIs ==
    ASSUME NEW list, IsList(list), list # <<>>
    PROVE  IsList(Tail(list)) /\ Ends(list, 1, Tail(list)) /\ 1 \in DOMAIN list
<1>1. PICK S : list \in Seq(S) /\ \A step \in S : Sound(step)
  BY DEF IsList
<1>2. /\ Len(list) \in Nat /\ Len(list) # 0 /\ DOMAIN list = 1 .. Len(list)
      /\ Tail(list) \in Seq(S) /\ Len(Tail(list)) = Len(list) - 1
      /\ \A i \in 1 .. Len(Tail(list)) : Tail(list)[i] = list[i + 1]
  BY <1>1, EmptySeq, HeadTailProperties
<1> QED BY <1>2 DEF IsList, Ends

LEMMA JoinedIs ==
    ASSUME NEW front, NEW rest, IsList(front), IsList(rest)
    PROVE  /\ IsList(front \o rest) /\ Ends(front \o rest, Len(front), rest)
           /\ Len(front) \in Nat /\ \A k \in 1 .. Len(front) : (front \o rest)[k] = front[k]
<1>1. PICK S : front \in Seq(S) /\ \A step \in S : Sound(step)
  BY DEF IsList
<1>2. PICK T : rest \in Seq(T) /\ \A step \in T : Sound(step)
  BY DEF IsList
<1>3. /\ front \in Seq(S \cup T) /\ rest \in Seq(S \cup T)
      /\ \A step \in S \cup T : Sound(step)
  BY <1>1, <1>2, SeqMonotonic
<1>4. front \o rest \in Seq(S \cup T) /\ Len(front) \in Nat /\ Len(rest) \in Nat
  BY <1>3
<1>5. /\ Len(front \o rest) = Len(front) + Len(rest)
      /\ \A i \in 1 .. Len(front) + Len(rest) :
            (front \o rest)[i] = IF i <= Len(front) THEN front[i] ELSE rest[i - Len(front)]
  BY <1>3, ConcatProperties
<1>6. ASSUME NEW k \in 1 .. Len(rest) PROVE (front \o rest)[Len(front) + k] = rest[k]
  <2>1. /\ Len(front) + k \in 1 .. Len(front) + Len(rest)
        /\ ~(Len(front) + k <= Len(front)) /\ Len(front) + k - Len(front) = k
    BY <1>4
  <2> QED BY <1>5, <2>1
<1>7. \A k \in 1 .. Len(front) : k \in 1 .. Len(front) + Len(rest) /\ k <= Len(front)
  BY <1>4
<1>8. IsList(front \o rest)
  BY <1>3, <1>4, Zenon DEF IsList
<1> QED BY <1>4, <1>5, <1>6, <1>7, <1>8 DEF Ends

LEMMA SingleIs ==
    ASSUME NEW step, Sound(step)
    PROVE  IsList(<<step>>) /\ Len(<<step>>) = 1 /\ <<step>>[1] = step
<1> DEFINE list == <<step>>
<1>1. PICK S : S = {step}
  OBVIOUS
<1>2. list \in Seq(S) /\ \A s \in S : Sound(s)
  BY <1>1
<1> HIDE DEF list
<1>3. IsList(list)
  BY <1>2 DEF IsList
<1> QED BY <1>3 DEF list

\* A plain step is done.
LEMMA StepDone ==
    ASSUME NEW list, IsList(list), list # <<>>, NEW top \in Nat, Ready(list, top), Plain(list[1])
    PROVE  IsList(Tail(list)) /\ Ready(Tail(list), top)
BY RestIs, StepsDone

\* Plain steps come before what is left.
LEMMA StepsBefore ==
    ASSUME NEW front, NEW rest, IsList(front), IsList(rest), NEW top \in Nat, Ready(rest, top),
           \A k \in 1 .. Len(front) : Plain(front[k])
    PROVE  IsList(front \o rest) /\ Ready(front \o rest, top)
<1> DEFINE list == front \o rest
<1>1. /\ IsList(list) /\ Ends(list, Len(front), rest)
      /\ Len(front) \in Nat /\ \A k \in 1 .. Len(front) : list[k] = front[k]
  BY JoinedIs
<1> HIDE DEF list
<1>2. \A k \in 1 .. Len(front) : Plain(list[k])
  BY <1>1
<1>3. Ready(list, top)
  BY <1>1, <1>2, StepsAdded
<1> QED BY <1>1, <1>3 DEF list

LEMMA StepBefore ==
    ASSUME NEW step, Plain(step), Sound(step), NEW rest, IsList(rest), NEW top \in Nat, Ready(rest, top)
    PROVE  IsList(<<step>> \o rest) /\ Ready(<<step>> \o rest, top)
<1> DEFINE front == <<step>>
<1>1. IsList(front) /\ Len(front) = 1 /\ front[1] = step
  BY SingleIs
<1> HIDE DEF front
<1>2. \A k \in 1 .. Len(front) : Plain(front[k])
  BY <1>1
<1>3. IsList(front \o rest) /\ Ready(front \o rest, top)
  BY <1>1, <1>2, StepsBefore
<1> QED BY <1>3 DEF front

\* An attempt begins.
LEMMA AttemptBegun ==
    ASSUME NEW list, IsList(list), list # <<>>, NEW top \in Nat, top >= 1, Ready(list, top),
           Plain(list[1]), NEW keep, keep.do = "keep",
           NEW steps, IsList(steps), \A k \in 1 .. Len(steps) : Plain(steps[k])
    PROVE  /\ IsList(steps \o <<keep>> \o Tail(list))
           /\ Ready(steps \o <<keep>> \o Tail(list), top + 1)
<1>1. IsList(Tail(list)) /\ Ready(Tail(list), top)
  BY StepDone
<1> DEFINE rest == <<keep>> \o Tail(list)
<1>2. IsList(rest) /\ Ends(rest, 1, Tail(list)) /\ rest[1] = keep
  <2> DEFINE front == <<keep>>
  <2>1. IsList(front) /\ Len(front) = 1 /\ front[1] = keep
    BY SingleIs DEF Sound
  <2> HIDE DEF front
  <2>2. /\ IsList(front \o Tail(list)) /\ Ends(front \o Tail(list), Len(front), Tail(list))
        /\ \A k \in 1 .. Len(front) : (front \o Tail(list))[k] = front[k]
    BY <1>1, <2>1, JoinedIs
  <2>3. (front \o Tail(list))[1] = keep
    BY <2>1, <2>2
  <2> QED BY <2>1, <2>2, <2>3 DEF front
<1>3. Ready(rest, top + 1)
  <2> HIDE DEF rest
  <2> QED BY <1>1, <1>2, ScopeAdded
<1>4. IsList(steps \o rest) /\ Ready(steps \o rest, top + 1)
  <2> HIDE DEF rest
  <2> QED BY <1>2, <1>3, StepsBefore
<1>5. (steps \o <<keep>>) \o Tail(list) = steps \o rest
  <2>1. PICK S : steps \in Seq(S)
    BY DEF IsList
  <2>2. PICK T : Tail(list) \in Seq(T)
    BY <1>1 DEF IsList
  <2>3. /\ steps \in Seq(S \cup T \cup {keep}) /\ Tail(list) \in Seq(S \cup T \cup {keep})
        /\ <<keep>> \in Seq(S \cup T \cup {keep})
    BY <2>1, <2>2, SeqMonotonic
  <2> QED BY <2>3, ConcatAssociative
<1> QED BY <1>4, <1>5

\* An attempt is kept, and reported.
LEMMA AttemptKept ==
    ASSUME NEW list, IsList(list), list # <<>>, NEW top \in Nat, Ready(list, top),
           list[1].do = "keep", NEW step, Plain(step), Sound(step)
    PROVE  /\ top > 1 /\ IsList(<<step>> \o Tail(list))
           /\ Ready(<<step>> \o Tail(list), top - 1)
<1>1. IsList(Tail(list)) /\ Ends(list, 1, Tail(list))
  BY RestIs
<1>2. top > 1 /\ Ready(Tail(list), top - 1)
  BY <1>1, ScopeDone
<1> QED BY <1>1, <1>2, StepBefore

\* An attempt is undone: what was left of it is not carried out.
LEMMA AttemptUndone ==
    ASSUME NEW list, IsList(list), NEW top \in Nat, top > 1, Ready(list, top),
           NEW step, Plain(step), Sound(step),
           NEW end, end = CHOOSE i \in DOMAIN list :
                     /\ list[i].do = "keep"
                     /\ \A j \in 1 .. i - 1 : list[j].do # "keep"
    PROVE  /\ IsList(<<step>> \o SubSeq(list, end + 1, Len(list)))
           /\ Ready(<<step>> \o SubSeq(list, end + 1, Len(list)), top - 1)
           /\ end \in DOMAIN list /\ list[end].do = "keep"
           /\ \A j \in 1 .. end - 1 : list[j].do # "keep"
<1> DEFINE L == Len(list)
<1>1. PICK S : list \in Seq(S) /\ \A s \in S : Sound(s)
  BY DEF IsList
<1>2. L \in Nat /\ DOMAIN list = 1 .. L
  BY <1>1
<1>3. PICK d \in [2 .. top -> Nat] : Marks(list, top, d)
  BY DEF Ready
<1>4. top \in 2 .. top /\ \A i \in 2 .. top : d[i] \in Nat /\ (i = top \/ i < top)
  OBVIOUS
<1>5. d[top] \in 2 .. L - 1 /\ list[L - d[top]].do = "keep"
  BY <1>3, <1>4 DEF Marks
<1>6. \A i \in 2 .. top : d[i] <= d[top]
  <2>1. \A i, j \in 2 .. top : i < j => d[i] < d[j]
    BY <1>3 DEF Marks
  <2> TAKE i \in 2 .. top
  <2>2. i = top \/ d[i] < d[top]
    BY <1>4, <2>1
  <2>3. PICK n, m \in Nat : n = d[i] /\ m = d[top]
    BY <1>4
  <2>4. n <= m
    BY <2>2, <2>3
  <2> QED BY <2>3, <2>4
<1>7. L - d[top] \in 1 .. L
  <2>1. PICK n \in 2 .. L - 1 : n = d[top]
    BY <1>5
  <2> HIDE DEF L
  <2>2. L - n \in 1 .. L
    BY <1>2
  <2> QED BY <2>1, <2>2
<1>8. ASSUME NEW j \in 1 .. L - d[top] - 1, list[j].do = "keep" PROVE FALSE
  <2>1. j \in 1 .. L
    BY <1>2, <1>5
  <2>2. PICK i \in 2 .. top : j = L - d[i]
    BY <1>3, <1>8, <2>1 DEF Marks
  <2>3. d[i] <= d[top] /\ d[i] \in Nat /\ d[top] \in Nat
    BY <1>4, <1>6
  <2> QED BY <1>2, <2>2, <2>3
<1>9. /\ end \in DOMAIN list /\ list[end].do = "keep"
      /\ \A j \in 1 .. end - 1 : list[j].do # "keep"
  <2>1. \E i \in DOMAIN list : list[i].do = "keep" /\ \A j \in 1 .. i - 1 : list[j].do # "keep"
    BY <1>2, <1>5, <1>7, <1>8
  <2> QED BY <2>1
<1> DEFINE rest == SubSeq(list, end + 1, L)
<1>10. IsList(rest) /\ Ends(list, end, rest) /\ end >= 1
  <2>1. PICK e \in 1 .. L : e = end
    BY <1>2, <1>9
  <2>2. PICK n \in Nat : n = L /\ n = Len(list)
    BY <1>2
  <2>3. e \in 1 .. n /\ e + 1 \in Nat /\ n - (e + 1) + 1 = n - e /\ n - e \in Nat
    BY <2>1, <2>2
  <2>4. \A i \in e + 1 .. n : list[i] \in S
    BY <1>1, <2>2, <2>3
  <2>5. /\ SubSeq(list, e + 1, n) \in Seq(S) /\ Len(SubSeq(list, e + 1, n)) = n - e
        /\ \A i \in 1 .. n - e : SubSeq(list, e + 1, n)[i] = list[e + 1 + i - 1]
    BY <1>1, <2>2, <2>3, <2>4, SubSeqProperties
  <2>6. rest = SubSeq(list, e + 1, n)
    BY <2>1, <2>2
  <2> HIDE DEF rest, L
  <2>7. \A i \in 1 .. n - e : rest[i] = list[e + i]
    <3>1. \A i \in 1 .. n - e : e + 1 + i - 1 = e + i
      BY <2>3
    <3> QED BY <2>5, <2>6, <3>1
  <2>8. Len(rest) = n - e /\ Len(rest) \in Nat /\ n = e + Len(rest)
    BY <2>3, <2>5, <2>6
  <2>9. IsList(rest)
    BY <1>1, <2>5, <2>6, Zenon DEF IsList
  <2>10. Ends(list, e, rest)
    BY <2>2, <2>3, <2>7, <2>8 DEF Ends
  <2> QED BY <2>1, <2>3, <2>9, <2>10
<1> HIDE DEF rest
<1>11. Ready(rest, top - 1)
  BY <1>9, <1>10, ScopeDone
<1>12. top - 1 \in Nat
  OBVIOUS
<1>13. IsList(<<step>> \o rest) /\ Ready(<<step>> \o rest, top - 1)
  BY <1>10, <1>11, <1>12, StepBefore
<1> QED BY <1>9, <1>13 DEF rest

\* A transaction begins.
LEMMA TransactionBegun ==
    ASSUME NEW steps, IsList(steps), \A k \in 1 .. Len(steps) : Plain(steps[k])
    PROVE  IsList(steps \o Closing) /\ Ready(steps \o Closing, 1)
<1>1. /\ IsList(Closing) /\ Len(Closing) = 2
      /\ Closing[1].do = "turns" /\ Closing[2].do = "announce"
  <2> DEFINE turns == [do |-> "turns"]
             announce == [do |-> "announce"]
  <2>1. turns.do = "turns" /\ announce.do = "announce" /\ Closing = <<turns, announce>>
    BY DEF Closing
  <2> HIDE DEF turns, announce
  <2>3. Sound(turns) /\ Sound(announce)
    BY <2>1 DEF Sound
  <2>2. /\ <<turns, announce>> \in Seq({turns, announce}) /\ Len(<<turns, announce>>) = 2
        /\ <<turns, announce>>[1] = turns /\ <<turns, announce>>[2] = announce
    OBVIOUS
  <2> QED BY <2>1, <2>2, <2>3 DEF IsList
<1>2. Ready(Closing, 1)
  <2> DEFINE d == [i \in 2 .. 1 |-> 0]
  <2>1. d \in [2 .. 1 -> Nat] /\ Marks(Closing, 1, d)
    BY <1>1 DEF Marks
  <2> HIDE DEF d
  <2>2. \E marks \in [2 .. 1 -> Nat] : Marks(Closing, 1, marks)
    BY <2>1
  <2>3. /\ Len(Closing) >= 2 /\ Closing[Len(Closing) - 1].do = "turns"
        /\ Closing[Len(Closing)].do = "announce" /\ 1 .. Len(Closing) - 2 = {}
    BY <1>1
  <2> QED BY <2>2, <2>3, Zenon DEF Ready
<1> QED BY <1>1, <1>2, StepsBefore

\* Turns are taken when nothing else is left, and no scope is open within the
\* transaction.
LEMMA TurnsAreLast ==
    ASSUME NEW list, IsList(list), list # <<>>, NEW top \in Nat, top >= 1, Ready(list, top),
           list[1].do = "turns"
    PROVE  top = 1 /\ IsList(Tail(list)) /\ Len(Tail(list)) = 1 /\ Tail(list)[1].do = "announce"
<1> DEFINE L == Len(list)
<1>1. /\ IsList(Tail(list)) /\ L \in Nat /\ L = 1 + Len(Tail(list)) /\ Len(Tail(list)) \in Nat
      /\ \A k \in 1 .. Len(Tail(list)) : list[1 + k] = Tail(list)[k]
  BY RestIs DEF Ends
<1>2. L = 2
  <2>1. L >= 2 /\ \A k \in 1 .. L - 2 : list[k].do # "turns"
    BY DEF Ready
  <2>2. 1 \notin 1 .. L - 2
    BY <2>1
  <2> QED BY <1>1, <2>1, <2>2
<1>3. top = 1
  <2>1. SUFFICES ASSUME top # 1 PROVE FALSE
    OBVIOUS
  <2>2. PICK d \in [2 .. top -> Nat] : Marks(list, top, d)
    BY DEF Ready
  <2>3. 2 \in 2 .. top
    BY <2>1
  <2>4. d[2] \in 2 .. Len(list) - 1
    BY <2>2, <2>3, Zenon DEF Marks
  <2>5. 2 .. Len(list) - 1 = {}
    BY <1>2
  <2> QED BY <2>4, <2>5
<1>4. list[2].do = "announce"
  BY <1>2 DEF Ready
<1>5. Len(Tail(list)) = 1
  <2> HIDE DEF L
  <2> QED BY <1>1, <1>2
<1>6. list[1 + 1] = Tail(list)[1] /\ 1 + 1 = 2
  BY <1>1, <1>5
<1> QED BY <1>1, <1>3, <1>4, <1>5, <1>6

-----------------------------------------------------------------------------
(* The floor between transactions, and what a transaction keeps of it.     *)

\* A conversation under way is at one of its lines.
AtALine(talk, c) == talk # None /\ talk.status = "active" => talk.line \in DOMAIN LinesOf[c]

TalksHold(records) == \A c \in Conversations : AtALine(records[Talk(c)], c)

\* Turns are not yet taken: the floor is as it was when the transaction began.
Ahead ==
    /\ Ready(agenda, Top)
    /\ state[Floor] = copies[1].now.state[Floor]
    /\ \A i \in 1 .. Top : copies[i].now.state[Floor] = copies[1].now.state[Floor]

\* Turns are taken.
Behind ==
    /\ Top = 1 /\ Len(agenda) <= 1
    /\ \A k \in 1 .. Len(agenda) : agenda[k].do = "announce"
    /\ FloorHolds(state)

FloorInv ==
    /\ IsList(agenda)
    /\ doing \notin {"command", "work", "drop"} => ~Open
    /\ TalksHold(state) /\ \A i \in 1 .. Top : TalksHold(copies[i].now.state)
    /\ IF Open THEN FloorHolds(copies[1].now.state) /\ (Ahead \/ Behind) ELSE FloorHolds(state)

LEMMA KeysAreRecords ==
    /\ Floor \in Records /\ Pending \in Records /\ Floor # Pending
    /\ \A c \in Conversations : Talk(c) \in Records
    /\ \A c : Talk(c) # Floor /\ Talk(c) # Pending
    /\ \A c, d : Talk(c) = Talk(d) => c = d
BY SessionAssumption DEF SessionRecords, Floor, Pending, Talk

LEMMA OtherKeys ==
    ASSUME NEW x, NEW c
    PROVE  /\ Variable(x) # Floor /\ Movement(x) # Floor /\ Location(x) # Floor /\ Fired(x) # Floor
           /\ Variable(x) # Talk(c) /\ Movement(x) # Talk(c) /\ Location(x) # Talk(c)
           /\ Fired(x) # Talk(c)
BY DEF Floor, Talk, Variable, Movement, Location, Fired

\* Whether the floor holds depends on the floor and the conversations.
LEMMA SameFloor ==
    ASSUME NEW records, NEW other, FloorHolds(records), other[Floor] = records[Floor],
           \A c \in Conversations : other[Talk(c)] = records[Talk(c)]
    PROVE  FloorHolds(other)
BY DEF FloorHolds, UnderWay

\* The floor holds when just the conversations under way wait for their turn.
LEMMA QueuesHold ==
    ASSUME NEW records
    PROVE  FloorHolds(records) <=>
              /\ records[Floor] \in Queues
              /\ \A c \in Conversations : Waits(records[Floor], c) <=> UnderWay(records, c)
<1> DEFINE q == records[Floor]
<1>1. \A c \in Conversations : ModeOf[c] \in Modes
  BY ContentAssumption
<1>2. ASSUME FloorHolds(records)
      PROVE  q \in Queues /\ \A c \in Conversations : Waits(q, c) <=> UnderWay(records, c)
  BY <1>1, <1>2 DEF FloorHolds, Queues, Waits
<1>3. ASSUME q \in Queues, \A c \in Conversations : Waits(q, c) <=> UnderWay(records, c)
      PROVE  FloorHolds(records)
  <2>1. q \in [Modes -> Seq(Conversations)] /\ \A m \in Modes : IsInjective(q[m])
    BY <1>3 DEF Queues
  <2>2. ASSUME NEW m \in Modes
        PROVE  ToSet(q[m]) = {c \in Conversations : ModeOf[c] = m /\ UnderWay(records, c)}
    <3>1. \A c \in ToSet(q[m]) : ModeOf[c] = m /\ c \in Conversations
      BY <1>3, <2>1 DEF Queues, ToSet
    <3> QED BY <1>3, <3>1 DEF Waits
  <2> QED BY <2>1, <2>2 DEF FloorHolds
<1> QED BY <1>2, <1>3

LEMMA OnlyIs ==
    ASSUME NEW k, NEW value
    PROVE  DOMAIN Only(k, value) = {k} /\ Only(k, value)[k] = value
BY DEF Only

LEMMA NothingWritten == DOMAIN NoRecords = {}
BY DEF NoRecords

-----------------------------------------------------------------------------
(* What the steps of a transaction do to its scopes and copies.            *)

LEMMA OpenIs ==
    ASSUME TxRemembers
    PROVE  /\ Top \in Nat /\ Len(copies) = Top /\ (Open <=> Top >= 1)
           /\ Open => 1 \in 1 .. Top /\ Top \in 1 .. Top
<1>1. PICK T : TxInv(T)
  BY DEF TxRemembers
<1>2. Top \in Nat /\ Len(copies) = Top /\ (Open <=> Top > 0)
  BY <1>1, TopIsASequenceLength
<1> QED BY <1>2

\* Whatever step is taken of a transaction, it remembers.
LEMMA StillRemembers ==
    ASSUME TxRemembers, AnyStep
    PROVE  TxRemembers'
BY AnyStepRemembers

LEMMA WorkIs ==
    ASSUME TxRemembers, NEW written, NEW clock, NEW signals, NEW reported,
           Work(written, clock, signals, reported)
    PROVE  /\ Open /\ Open' /\ Top' = Top /\ copies' = copies
           /\ \A k \in Records : state'[k] = IF k \in DOMAIN written THEN written[k] ELSE state[k]
<1>1. PICK T : TxInv(T)
  BY DEF TxRemembers
<1>2. Open /\ copies' = copies /\ state' = Put(written)
  BY DEF Work
<1>3. scopes \in Seq(Scope(T)) /\ Top \in Nat /\ Top >= 1
  BY <1>1, <1>2, OpenIs DEF TxInv, TxTypeOK
<1>4. \E scope : scopes' = [scopes EXCEPT ![Top] = scope]
  BY DEF Work, WithInner
<1>5. Len(scopes') = Len(scopes)
  BY <1>3, <1>4 DEF Top
<1>6. Top' = Top /\ Open'
  BY <1>3, <1>5, EmptySeq DEF Top, Open
<1> QED BY <1>2, <1>6 DEF Put

LEMMA EnterIs ==
    ASSUME TxRemembers, EnterScope
    PROVE  /\ Open' /\ Top' = Top + 1 /\ state' = state /\ copies'[Top + 1].now = Now
           /\ \A i \in 1 .. Top : copies'[i] = copies[i]
<1> DEFINE copy == [now |-> Now, reports |-> Reports]
<1>1. PICK T : TxInv(T)
  BY DEF TxRemembers
<1>2. /\ scopes \in Seq(Scope(T)) /\ copies \in Seq(SavedCopy(T))
      /\ Len(copies) = Top /\ Top \in Nat /\ Top = Len(scopes)
  BY <1>1, OpenIs DEF TxInv, TxTypeOK, Top
<1>3. scopes' = Append(scopes, Fresh) /\ copies' = Append(copies, copy) /\ state' = state
  BY DEF EnterScope
<1>4. copy.now = Now
  OBVIOUS
<1> HIDE DEF copy
<1>5. Len(scopes') = Top + 1 /\ scopes' # <<>>
  BY <1>2, <1>3
<1>6. copies'[Top + 1] = copy /\ \A i \in 1 .. Top : copies'[i] = copies[i]
  BY <1>2, <1>3
<1>7. copies'[Top + 1].now = Now
  BY <1>4, <1>6
<1> QED BY <1>3, <1>5, <1>6, <1>7 DEF Top, Open

LEMMA KeepIs ==
    ASSUME TxRemembers, KeepScope
    PROVE  /\ Top >= 1 /\ Top' = Top - 1 /\ state' = state
           /\ \A i \in 1 .. Top - 1 : copies'[i] = copies[i]
<1>1. PICK T : TxInv(T)
  BY DEF TxRemembers
<1>2. PICK n \in Nat :
        /\ n + 1 = Top /\ Outer \in Seq(Scope(T)) /\ Len(Outer) = n
        /\ \A i \in 1 .. n : SubSeq(copies, 1, Top - 1)[i] = copies[i]
  BY <1>1, Below DEF KeepScope
<1>3. Top' = n
  <2>1. CASE Top = 1
    BY <1>2, <2>1 DEF KeepScope, Top
  <2>2. CASE Top # 1
    <3>1. \E scope : scopes' = [Outer EXCEPT ![Top - 1] = scope]
      BY <2>2 DEF KeepScope
    <3>2. Len(scopes') = Len(Outer)
      BY <1>2, <3>1
    <3> QED BY <1>2, <3>2 DEF Top
  <2> QED BY <2>1, <2>2
<1> QED BY <1>2, <1>3 DEF KeepScope

LEMMA UndoIs ==
    ASSUME TxRemembers, UndoScope
    PROVE  /\ Top >= 1 /\ Top' = Top - 1 /\ state' = copies[Top].now.state
           /\ \A i \in 1 .. Top - 1 : copies'[i] = copies[i]
<1>1. PICK T : TxInv(T)
  BY DEF TxRemembers
<1>2. PICK n \in Nat :
        /\ n + 1 = Top /\ Len(Outer) = n
        /\ \A i \in 1 .. n : SubSeq(copies, 1, Top - 1)[i] = copies[i]
  BY <1>1, Below DEF UndoScope
<1>3. state' = copies[Top].now.state
  BY <1>1, UndoRestoresTheCopy
<1> QED BY <1>2, <1>3 DEF UndoScope, Top

-----------------------------------------------------------------------------
(* The steps of a transaction keep the floor.                              *)

LEMMA NothingLeft == IsList(<<>>)
<1>1. PICK S : S = {}
  OBVIOUS
<1>2. <<>> \in Seq(S) /\ \A step \in S : Sound(step)
  BY <1>1
<1> QED BY <1>2 DEF IsList

LEMMA AgendaIs ==
    ASSUME IsList(agenda), agenda # <<>>
    PROVE  Len(agenda) \in Nat /\ Len(agenda) >= 1 /\ 1 \in 1 .. Len(agenda)
<1>1. PICK S : agenda \in Seq(S)
  BY DEF IsList
<1>2. Len(agenda) \in Nat /\ Len(agenda) # 0
  BY <1>1, EmptySeq
<1> QED BY <1>2

\* Until turns are taken the first step is not to announce, and after it is
\* the only one left.
LEMMA FirstStep ==
    ASSUME TxRemembers, FloorInv, Open, agenda # <<>>
    PROVE  /\ FloorHolds(copies[1].now.state)
           /\ \/ Ahead /\ agenda[1].do # "announce"
              \/ Behind /\ agenda[1].do = "announce"
<1>1. FloorHolds(copies[1].now.state) /\ (Ahead \/ Behind)
  BY DEF FloorInv
<1>2. Len(agenda) \in Nat /\ 1 \in 1 .. Len(agenda)
  BY AgendaIs DEF FloorInv
<1>3. CASE Behind
  BY <1>1, <1>2, <1>3 DEF Behind
<1>4. CASE Ahead
  <2>1. /\ Len(agenda) >= 2 /\ agenda[Len(agenda) - 1].do = "turns"
        /\ \A k \in 1 .. Len(agenda) - 2 : agenda[k].do # "announce"
    BY <1>4 DEF Ahead, Ready
  <2>2. CASE Len(agenda) = 2
    BY <1>1, <1>4, <2>1, <2>2
  <2>3. CASE Len(agenda) > 2
    <3>1. 1 \in 1 .. Len(agenda) - 2
      BY <1>2, <2>3
    <3> QED BY <1>1, <1>4, <2>1, <3>1
  <2>4. Len(agenda) = 2 \/ Len(agenda) > 2
    <3>1. PICK n \in Nat : n = Len(agenda)
      BY <1>2
    <3>2. n >= 2
      BY <2>1, <3>1
    <3>3. n = 2 \/ n > 2
      BY <3>2
    <3> QED BY <3>1, <3>3
  <2> QED BY <2>2, <2>3, <2>4
<1> QED BY <1>1, <1>3, <1>4

\* Work leaves conversations at their lines.
LEMMA TalksStay ==
    ASSUME TxRemembers, FloorInv, NEW written, NEW clock, NEW signals, NEW reported,
           Work(written, clock, signals, reported),
           \A c \in Conversations : Talk(c) \in DOMAIN written => AtALine(written[Talk(c)], c)
    PROVE  TalksHold(state') /\ \A i \in 1 .. Top' : TalksHold(copies'[i].now.state)
<1>1. /\ Top' = Top /\ copies' = copies
      /\ \A k \in Records : state'[k] = IF k \in DOMAIN written THEN written[k] ELSE state[k]
  BY WorkIs
<1>2. TalksHold(state) /\ \A i \in 1 .. Top : TalksHold(copies[i].now.state)
  BY DEF FloorInv
<1> QED BY <1>1, <1>2, KeysAreRecords DEF TalksHold

LEMMA PlainWork ==
    ASSUME TxRemembers, FloorInv, NEW written, NEW clock, NEW signals, NEW reported,
           Work(written, clock, signals, reported),
           agenda # <<>>, Plain(agenda[1]), agenda' = Rest, doing' = doing,
           Floor \notin DOMAIN written,
           \A c \in Conversations : Talk(c) \in DOMAIN written => AtALine(written[Talk(c)], c)
    PROVE  FloorInv'
<1>1. /\ Open /\ Open' /\ Top' = Top /\ copies' = copies
      /\ \A k \in Records : state'[k] = IF k \in DOMAIN written THEN written[k] ELSE state[k]
  BY WorkIs
<1>2. FloorHolds(copies[1].now.state) /\ Ahead
  BY <1>1, FirstStep DEF Plain
<1>3. Top \in Nat /\ IsList(agenda)
  BY OpenIs DEF FloorInv
<1>4. IsList(agenda') /\ Ready(agenda', Top)
  BY <1>2, <1>3, StepDone DEF Ahead, Rest
<1>5. state'[Floor] = state[Floor]
  BY <1>1, KeysAreRecords
<1>6. Ahead'
  BY <1>1, <1>2, <1>4, <1>5 DEF Ahead
<1>7. TalksHold(state') /\ \A i \in 1 .. Top' : TalksHold(copies'[i].now.state)
  BY TalksStay
<1>8. FloorHolds(copies'[1].now.state)
  BY <1>1, <1>2
<1>9. doing' \notin {"command", "work", "drop"} => ~Open'
  BY <1>1 DEF FloorInv
<1> QED BY <1>1, <1>4, <1>6, <1>7, <1>8, <1>9 DEF FloorInv

LEMMA AnnounceKeepsFloor ==
    ASSUME TxRemembers, FloorInv, Announce
    PROVE  FloorInv'
<1>1. PICK written, signals :
        /\ Does(written, signals, <<>>) /\ DOMAIN written \subseteq {Pending}
  BY OnlyIs, NothingWritten DEF Announce
<1>2. Work(written, scalars, signals, <<>>) /\ agenda' = Rest /\ doing' = doing
  BY <1>1 DEF Does
<1>3. /\ Open /\ Open' /\ Top' = Top /\ copies' = copies
      /\ \A k \in Records : state'[k] = IF k \in DOMAIN written THEN written[k] ELSE state[k]
  BY <1>2, WorkIs
<1>4. agenda # <<>> /\ agenda[1].do = "announce"
  BY DEF Announce, Step
<1>5. FloorHolds(copies[1].now.state) /\ Behind
  BY <1>3, <1>4, FirstStep
<1>6. /\ IsList(agenda') /\ Len(agenda) \in Nat /\ Len(agenda') \in Nat
      /\ Len(agenda) = 1 + Len(agenda')
  BY <1>2, <1>4, RestIs DEF FloorInv, Rest, Ends
<1>7. Len(agenda') <= 1 /\ \A k \in 1 .. Len(agenda') : FALSE
  BY <1>5, <1>6 DEF Behind
<1>8. /\ state'[Floor] = state[Floor]
      /\ \A c \in Conversations : state'[Talk(c)] = state[Talk(c)] /\ Talk(c) \notin DOMAIN written
  BY <1>1, <1>3, KeysAreRecords
<1>9. FloorHolds(state')
  BY <1>5, <1>8, SameFloor DEF Behind
<1>10. Behind'
  BY <1>3, <1>5, <1>7, <1>9 DEF Behind
<1>11. TalksHold(state') /\ \A i \in 1 .. Top' : TalksHold(copies'[i].now.state)
  BY <1>2, <1>8, TalksStay
<1>12. FloorHolds(copies'[1].now.state)
  BY <1>3, <1>5
<1>13. doing' \notin {"command", "work", "drop"} => ~Open'
  BY <1>2, <1>3 DEF FloorInv
<1> QED BY <1>3, <1>6, <1>10, <1>11, <1>12, <1>13 DEF FloorInv

LEMMA TurnsKeepFloor ==
    ASSUME TxRemembers, FloorInv, TakeTurns
    PROVE  FloorInv'
<1> DEFINE queues == TurnsOfAll(SetToSeq(TouchedTalks))
           written == IF queues = state[Floor] THEN NoRecords ELSE Only(Floor, queues)
<1>1. Work(written, scalars, {}, <<>>) /\ agenda' = Rest /\ doing' = doing
  BY DEF TakeTurns, Does
<1> HIDE DEF queues
<1>2. DOMAIN written \subseteq {Floor} /\ \A k \in DOMAIN written : written[k] = queues
  <2>1. CASE queues = state[Floor]
    BY <2>1, NothingWritten
  <2>2. CASE queues # state[Floor]
    <3>1. written = Only(Floor, queues)
      BY <2>2
    <3> HIDE DEF written
    <3>2. DOMAIN written = {Floor} /\ written[Floor] = queues
      BY <3>1, OnlyIs
    <3> QED BY <3>2
  <2> QED BY <2>1, <2>2
<1>3. Floor \in DOMAIN written \/ queues = state[Floor]
  BY OnlyIs
<1> HIDE DEF written
<1>4. /\ Open /\ Open' /\ Top' = Top /\ copies' = copies
      /\ \A k \in Records : state'[k] = IF k \in DOMAIN written THEN written[k] ELSE state[k]
  BY <1>1, WorkIs
<1>5. agenda # <<>> /\ agenda[1].do = "turns"
  BY DEF TakeTurns, Step
<1>6. FloorHolds(copies[1].now.state) /\ Ahead
  BY <1>4, <1>5, FirstStep
<1>7. Top \in Nat /\ Top >= 1 /\ IsList(agenda) /\ 1 \in 1 .. Top
  BY <1>4, OpenIs DEF FloorInv
<1>8. /\ Top = 1 /\ IsList(agenda') /\ Len(agenda') = 1 /\ agenda'[1].do = "announce"
  BY <1>1, <1>5, <1>6, <1>7, TurnsAreLast DEF Ahead, Rest
<1>9. /\ state'[Floor] = queues
      /\ \A c \in Conversations : state'[Talk(c)] = state[Talk(c)] /\ Talk(c) \notin DOMAIN written
  BY <1>2, <1>3, <1>4, KeysAreRecords
\* What the transaction did not touch is as it was when it began.
<1>10. \A k \in Records : k \notin DOMAIN Inner.before => copies[1].now.state[k] = state[k]
  <2>1. PICK T : TxInv(T)
    BY DEF TxRemembers
  <2>2. StateIsRemembered(1)
    BY <1>7, <2>1 DEF TxInv, Remembered
  <2> QED BY <1>8, <2>2 DEF StateIsRemembered, StateAbove, Inner
<1>11. /\ state[Floor] \in Queues
       /\ \A c \in Conversations : Waits(state[Floor], c) <=> UnderWay(copies[1].now.state, c)
  BY <1>6, QueuesHold DEF Ahead
<1>12. /\ SetToSeq(TouchedTalks) \in Seq(Conversations)
       /\ ToSet(SetToSeq(TouchedTalks)) = TouchedTalks
  <2>1. TouchedTalks \subseteq Conversations
    BY DEF TouchedTalks
  <2>2. IsFiniteSet(TouchedTalks)
    BY <2>1, ContentAssumption, FS_Subset
  <2>3. SetToSeq(TouchedTalks) \in Seq(TouchedTalks)
    BY <2>2, SetToSeqIs
  <2> QED BY <2>1, <2>2, <2>3, SetToSeqIs, SeqMonotonic
<1>13. /\ queues \in Queues
       /\ \A c \in TouchedTalks : Waits(queues, c) <=> Active(c)
       /\ \A c \in Conversations \ TouchedTalks : Waits(queues, c) <=> Waits(state[Floor], c)
  BY <1>11, <1>12, TurnsOfAllAre DEF queues
<1>14. ASSUME NEW c \in Conversations PROVE Waits(queues, c) <=> UnderWay(state', c)
  <2>1. UnderWay(state', c) <=> Active(c)
    BY <1>9 DEF UnderWay, Active
  <2>2. CASE c \in TouchedTalks
    BY <1>13, <2>1, <2>2
  <2>3. CASE c \notin TouchedTalks
    <3>1. copies[1].now.state[Talk(c)] = state[Talk(c)]
      BY <1>10, <2>3, KeysAreRecords DEF TouchedTalks
    <3>2. UnderWay(copies[1].now.state, c) <=> Active(c)
      BY <3>1 DEF UnderWay, Active
    <3> QED BY <1>11, <1>13, <2>1, <2>3, <3>2
  <2> QED BY <2>2, <2>3
<1>15. FloorHolds(state')
  BY <1>9, <1>13, <1>14, QueuesHold
<1>16. Behind'
  BY <1>4, <1>8, <1>15 DEF Behind
<1>17. TalksHold(state') /\ \A i \in 1 .. Top' : TalksHold(copies'[i].now.state)
  BY <1>1, <1>9, TalksStay
<1>18. FloorHolds(copies'[1].now.state)
  BY <1>4, <1>6
<1>19. doing' \notin {"command", "work", "drop"} => ~Open'
  BY <1>1, <1>4 DEF FloorInv
<1> QED BY <1>4, <1>8, <1>16, <1>17, <1>18, <1>19 DEF FloorInv

LEMMA CommitKeepsFloor ==
    ASSUME TxRemembers, FloorInv, Commit
    PROVE  FloorInv'
<1>1. /\ Top = 1 /\ Top' = 0 /\ state' = state /\ agenda = <<>> /\ agenda' = agenda
  BY KeepIs DEF Commit
<1>2. ~Open'
  BY <1>1, EmptySeq DEF Commit, KeepScope, Open
<1>3. FloorHolds(state)
  <2>1. Len(agenda) = 0
    BY <1>1
  <2>2. ~Ahead
    BY <2>1 DEF Ahead, Ready
  <2>3. Open
    BY <1>1, OpenIs
  <2> QED BY <2>2, <2>3 DEF FloorInv, Behind
<1> QED BY <1>1, <1>2, <1>3 DEF FloorInv

LEMMA TransactKeepsFloor ==
    ASSUME TxRemembers, FloorInv, NEW what \in {"command", "work", "drop"}, NEW steps,
           Transact(what, steps), IsList(steps), \A k \in 1 .. Len(steps) : Plain(steps[k])
    PROVE  FloorInv'
<1>1. ~Open /\ EnterScope /\ doing' = what /\ agenda' = steps \o Closing
  BY DEF Transact
<1>2. Top = 0
  BY <1>1, OpenIs
<1>3. Open' /\ Top' = 1 /\ state' = state /\ copies'[1].now.state = state
  BY <1>1, <1>2, EnterIs DEF Now
<1>4. IsList(agenda') /\ Ready(agenda', 1)
  BY <1>1, TransactionBegun
<1>5. FloorHolds(state) /\ TalksHold(state)
  BY <1>1 DEF FloorInv
<1>6. \A i \in 1 .. 1 : i = 1
  OBVIOUS
<1>7. Ahead'
  BY <1>3, <1>4, <1>6 DEF Ahead
<1> QED BY <1>1, <1>3, <1>4, <1>5, <1>6, <1>7 DEF FloorInv

LEMMA AttemptKeepsFloor ==
    ASSUME TxRemembers, FloorInv, Open, agenda # <<>>, Plain(agenda[1]),
           NEW steps, NEW done, NEW failed, Attempt(steps, done, failed),
           IsList(steps), \A k \in 1 .. Len(steps) : Plain(steps[k])
    PROVE  FloorInv'
<1> DEFINE keep == [do |-> "keep", done |-> done, failed |-> failed]
<1>1. EnterScope /\ doing' = doing /\ agenda' = steps \o <<keep>> \o Tail(agenda)
  BY DEF Attempt, Rest
<1>2. keep.do = "keep"
  OBVIOUS
<1> HIDE DEF keep
<1>3. Top \in Nat /\ Top >= 1 /\ 1 \in 1 .. Top
  BY OpenIs
<1>4. FloorHolds(copies[1].now.state) /\ Ahead /\ IsList(agenda) /\ TalksHold(state)
  BY FirstStep DEF Plain, FloorInv
<1>5. IsList(agenda') /\ Ready(agenda', Top + 1)
  BY <1>1, <1>2, <1>3, <1>4, AttemptBegun DEF Ahead
<1>6. /\ Open' /\ Top' = Top + 1 /\ state' = state /\ copies'[Top + 1].now.state = state
      /\ \A i \in 1 .. Top : copies'[i] = copies[i]
  BY <1>1, EnterIs DEF Now
<1>7. \A i \in 1 .. Top + 1 : i \in 1 .. Top \/ i = Top + 1
  BY <1>3
<1>8. copies'[1] = copies[1]
  BY <1>3, <1>6
<1>9. \A i \in 1 .. Top + 1 : copies'[i].now.state[Floor] = copies[1].now.state[Floor]
  BY <1>4, <1>6, <1>7 DEF Ahead
<1>10. Ahead'
  BY <1>4, <1>5, <1>6, <1>8, <1>9 DEF Ahead
<1>11. \A i \in 1 .. Top + 1 : TalksHold(copies'[i].now.state)
  BY <1>4, <1>6, <1>7 DEF FloorInv
<1> QED BY <1>1, <1>4, <1>5, <1>6, <1>8, <1>10, <1>11 DEF FloorInv

\* An attempt ends, with the state it leaves or with the one it began with.
LEMMA AttemptEnds ==
    ASSUME TxRemembers, FloorInv, Ahead, Top > 1, Top' = Top - 1,
           \A i \in 1 .. Top - 1 : copies'[i] = copies[i],
           state' \in {state, copies[Top].now.state}, doing' = doing,
           IsList(agenda'), Ready(agenda', Top - 1)
    PROVE  FloorInv'
<1>1. /\ Top \in Nat /\ 1 \in 1 .. Top - 1 /\ Top \in 1 .. Top /\ Open
      /\ \A i \in 1 .. Top - 1 : i \in 1 .. Top
  BY OpenIs
<1>2. Open'
  <2>1. scopes' # <<>>
    BY <1>1, EmptySeq DEF Top
  <2> QED BY <2>1 DEF Open
<1>3. copies'[1] = copies[1] /\ FloorHolds(copies[1].now.state)
  BY <1>1 DEF FloorInv
<1>4. state'[Floor] = copies[1].now.state[Floor]
  BY <1>1 DEF Ahead
<1>5. \A i \in 1 .. Top' : copies'[i].now.state[Floor] = copies'[1].now.state[Floor]
  BY <1>1, <1>3 DEF Ahead
<1>6. Ahead'
  BY <1>3, <1>4, <1>5 DEF Ahead
<1>7. TalksHold(state') /\ \A i \in 1 .. Top' : TalksHold(copies'[i].now.state)
  BY <1>1 DEF FloorInv
<1> QED BY <1>1, <1>2, <1>3, <1>6, <1>7 DEF FloorInv

LEMMA KeepAttemptKeepsFloor ==
    ASSUME TxRemembers, FloorInv, KeepAttempt
    PROVE  FloorInv'
<1> DEFINE step == [do |-> "report", event |-> agenda[1].done]
<1>1. Plain(step) /\ Sound(step)
  BY DEF Plain, Sound
<1>2. /\ KeepScope /\ Open /\ agenda # <<>> /\ agenda[1].do = "keep"
      /\ agenda' = <<step>> \o Tail(agenda) /\ doing' = doing
  BY DEF KeepAttempt, Step, Rest
<1> HIDE DEF step
<1>3. /\ Top >= 1 /\ Top' = Top - 1 /\ state' = state
      /\ \A i \in 1 .. Top - 1 : copies'[i] = copies[i]
  BY <1>2, KeepIs
<1>4. Ahead /\ IsList(agenda) /\ Top \in Nat
  BY <1>2, FirstStep, OpenIs DEF FloorInv
<1>5. Top > 1 /\ IsList(agenda') /\ Ready(agenda', Top - 1)
  BY <1>1, <1>2, <1>4, AttemptKept DEF Ahead
<1> QED BY <1>2, <1>3, <1>4, <1>5, AttemptEnds

LEMMA UndoAttemptKeepsFloor ==
    ASSUME TxRemembers, FloorInv, UndoAttempt
    PROVE  FloorInv'
<1> DEFINE end == CHOOSE i \in DOMAIN agenda :
                     /\ agenda[i].do = "keep"
                     /\ \A j \in 1 .. i - 1 : agenda[j].do # "keep"
           step == [do |-> "report", event |-> agenda[end].failed]
<1>1. Plain(step) /\ Sound(step)
  BY DEF Plain, Sound
<1>2. /\ UndoScope /\ Top > 1 /\ doing' = doing
      /\ agenda' = <<step>> \o SubSeq(agenda, end + 1, Len(agenda))
  BY DEF UndoAttempt
<1> HIDE DEF step
<1>3. /\ Top' = Top - 1 /\ state' = copies[Top].now.state
      /\ \A i \in 1 .. Top - 1 : copies'[i] = copies[i]
  BY <1>2, UndoIs
<1>4. Top \in Nat /\ Open
  BY <1>2, OpenIs
<1>5. Ahead /\ IsList(agenda)
  BY <1>2, <1>4 DEF FloorInv, Behind
<1>6. IsList(agenda') /\ Ready(agenda', Top - 1)
  BY <1>1, <1>2, <1>4, <1>5, AttemptUndone DEF Ahead
<1> QED BY <1>2, <1>3, <1>4, <1>5, <1>6, AttemptEnds

LEMMA RollBackKeepsFloor ==
    ASSUME TxRemembers, FloorInv, RollBack
    PROVE  FloorInv'
<1>1. Top = 1 /\ UndoScope /\ agenda' = <<>>
  BY DEF RollBack
<1>2. Top' = 0 /\ state' = copies[1].now.state
  BY <1>1, UndoIs
<1>3. Open /\ 1 \in 1 .. Top
  BY <1>1, OpenIs
<1>4. FloorHolds(state') /\ TalksHold(state')
  BY <1>2, <1>3 DEF FloorInv
<1>5. ~Open'
  <2>1. PICK T : TxInv(T)
    BY DEF TxRemembers
  <2>2. Outer \in Seq(Scope(T)) /\ scopes' = Outer
    BY <1>1, <1>3, <2>1, Below DEF UndoScope
  <2> QED BY <1>2, <2>2, EmptySeq DEF Open, Top
<1>6. IsList(agenda')
  BY <1>1, NothingLeft
<1> QED BY <1>2, <1>4, <1>5, <1>6 DEF FloorInv

LEMMA ResumeKeepsFloor ==
    ASSUME NEW records, NEW clock, TakeOver(records, clock), FloorHolds(records), TalksHold(records)
    PROVE  FloorInv'
<1>1. state' = records /\ agenda' = <<>> /\ scopes' = <<>>
  BY DEF TakeOver, Resume
<1>2. ~Open' /\ Top' = 0
  BY <1>1 DEF Open, Top
<1>3. IsList(agenda')
  BY <1>1, NothingLeft
<1> QED BY <1>1, <1>2, <1>3 DEF FloorInv

-----------------------------------------------------------------------------
(* What transactions and attempts have to do.                              *)

AllPlain(list) == IsList(list) /\ \A k \in 1 .. Len(list) : Plain(list[k])

LEMMA OnePlain ==
    ASSUME NEW step, Plain(step), Sound(step)
    PROVE  AllPlain(<<step>>)
<1> DEFINE list == <<step>>
<1>1. IsList(list) /\ Len(list) = 1 /\ list[1] = step
  BY SingleIs
<1> HIDE DEF list
<1>2. AllPlain(list)
  BY <1>1 DEF AllPlain
<1> QED BY <1>2 DEF list

LEMMA JoinedPlain ==
    ASSUME NEW front, NEW rest, AllPlain(front), AllPlain(rest)
    PROVE  AllPlain(front \o rest)
<1> DEFINE list == front \o rest
           N == Len(front)
           R == Len(rest)
<1>1. /\ IsList(list) /\ N \in Nat /\ R \in Nat /\ Len(list) = N + R
      /\ \A k \in 1 .. N : list[k] = front[k]
      /\ \A k \in 1 .. R : list[N + k] = rest[k]
  BY JoinedIs DEF AllPlain, Ends
<1>2. (\A k \in 1 .. N : Plain(front[k])) /\ (\A k \in 1 .. R : Plain(rest[k]))
  BY DEF AllPlain
<1> HIDE DEF list, N, R
<1>3. ASSUME NEW k \in 1 .. Len(list) PROVE Plain(list[k])
  <2>1. CASE k \in 1 .. N
    BY <1>1, <1>2, <2>1
  <2>2. CASE k \notin 1 .. N
    <3>1. k - N \in 1 .. R /\ N + (k - N) = k
      BY <1>1, <2>2
    <3>2. list[k] = rest[k - N]
      <4>1. list[N + (k - N)] = rest[k - N]
        BY <1>1, <3>1
      <4> QED BY <3>1, <4>1
    <3> QED BY <1>2, <3>1, <3>2
  <2> QED BY <2>1, <2>2
<1> QED BY <1>1, <1>3 DEF AllPlain, list

LEMMA DeedsArePlain ==
    ASSUME NEW deeds \in Seq(Deed)
    PROVE  AllPlain(deeds)
<1>1. \A step \in Deed : Plain(step) /\ Sound(step)
  BY DEF Deed, Plain, Sound
<1>2. IsList(deeds)
  BY <1>1 DEF IsList
<1>3. \A k \in 1 .. Len(deeds) : deeds[k] \in Deed
  OBVIOUS
<1> QED BY <1>1, <1>2, <1>3 DEF AllPlain

\* Each trigger that listens is tried.
LEMMA WorkIsPlain ==
    ASSUME NEW work
    PROVE  /\ AllPlain(StepsOf(work))
           /\ \A k \in 1 .. Len(StepsOf(work)) : StepsOf(work)[k].do \in {"start", "try"}
<1>1. CASE work.kind = "start"
  <2> DEFINE step == [do |-> "start", conversation |-> work.conversation]
  <2>1. Plain(step) /\ Sound(step)
    BY DEF Plain, Sound
  <2>2. StepsOf(work) = <<step>>
    BY <1>1 DEF StepsOf
  <2>3. step.do = "start"
    OBVIOUS
  <2> HIDE DEF step
  <2>4. Len(<<step>>) = 1 /\ <<step>>[1] = step
    BY <2>1, SingleIs
  <2> QED BY <2>1, <2>2, <2>3, <2>4, OnePlain
<1>2. CASE work.kind # "start"
  <2> DEFINE listening == {t \in Triggers : work.signal \in ListensTo[t]}
             them == Subscribers(work.signal)
             steps == [i \in DOMAIN them |-> [do |-> "try", trigger |-> them[i]]]
             S == [do : {"try"}, trigger : Triggers]
  <2>1. StepsOf(work) = steps
    BY <1>2 DEF StepsOf
  <2>2. them \in Seq(Triggers)
    <3>1. listening \subseteq Triggers /\ IsFiniteSet(listening)
      BY ContentAssumption, FS_Subset
    <3>2. them = SetToSeq(listening)
      BY DEF Subscribers
    <3> HIDE DEF listening, them
    <3>3. them \in Seq(listening)
      BY <3>1, <3>2, SetToSeqIs
    <3> QED BY <3>1, <3>3, SeqMonotonic
  <2> HIDE DEF them
  <2>3. steps \in Seq(S) /\ DOMAIN steps = 1 .. Len(steps)
    <3>1. Len(them) \in Nat /\ DOMAIN them = 1 .. Len(them)
      BY <2>2
    <3>2. \A i \in 1 .. Len(them) : them[i] \in Triggers
      BY <2>2
    <3>3. \A i \in DOMAIN them : [do |-> "try", trigger |-> them[i]] \in S
      BY <3>1, <3>2
    <3> HIDE DEF S
    <3> QED BY <3>1, <3>3
  <2>4. \A step \in S : Plain(step) /\ Sound(step) /\ step.do = "try"
    BY DEF Plain, Sound
  <2> HIDE DEF steps, S
  <2>5. IsList(steps)
    BY <2>3, <2>4 DEF IsList
  <2>6. \A k \in 1 .. Len(steps) : steps[k] \in S
    BY <2>3
  <2> QED BY <2>1, <2>4, <2>5, <2>6 DEF AllPlain
<1> QED BY <1>1, <1>2

LEMMA PlainTransact ==
    ASSUME TxRemembers, FloorInv, NEW what \in {"command", "work", "drop"}, NEW steps,
           Transact(what, steps), AllPlain(steps)
    PROVE  FloorInv'
BY TransactKeepsFloor DEF AllPlain

LEMMA OneStepTransact ==
    ASSUME TxRemembers, FloorInv, NEW what \in {"command", "work", "drop"}, NEW step,
           Transact(what, <<step>>),
           step.do \notin {"keep", "turns", "announce", "try", "present"}
    PROVE  FloorInv'
<1>1. AllPlain(<<step>>)
  BY OnePlain DEF Plain, Sound
<1> QED BY <1>1, PlainTransact

LEMMA CommandsKeepFloor ==
    ASSUME TxRemembers, FloorInv, Commands
    PROVE  FloorInv'
<1>1. ASSUME NEW step, Command(<<step>>),
             step.do \notin {"keep", "turns", "announce", "try", "present"}
      PROVE  FloorInv'
  BY <1>1, OneStepTransact DEF Command
<1>2. ASSUME NEW c \in Conversations, AdvanceLine(c)
      PROVE  FloorInv'
  <2> DEFINE line == state[Talk(c)].line
             step == [do |-> "present", conversation |-> c, line |-> line]
  <2>1. Active(c) /\ Command(LinesOf[c][line] \o <<step>>)
    BY <1>2 DEF AdvanceLine
  <2>2. line \in DOMAIN LinesOf[c]
    BY <2>1 DEF Active, FloorInv, TalksHold, AtALine
  <2>3. LinesOf[c] \in Seq(Seq(Deed))
    BY ContentAssumption
  <2> HIDE DEF line
  <2>4. line \in Nat \ {0} /\ LinesOf[c][line] \in Seq(Deed)
    BY <2>2, <2>3
  <2>5. AllPlain(LinesOf[c][line])
    BY <2>4, DeedsArePlain
  <2>6. Plain(step) /\ Sound(step)
    BY <2>4 DEF Plain, Sound
  <2> HIDE DEF step
  <2>7. AllPlain(LinesOf[c][line] \o <<step>>)
    BY <2>5, <2>6, OnePlain, JoinedPlain
  <2> QED BY <2>1, <2>7, PlainTransact DEF Command
<1>3. ASSUME NEW c \in Conversations, StartDialogue(c) \/ InterruptDialogue(c)
      PROVE  FloorInv'
  BY <1>1, <1>3 DEF StartDialogue, InterruptDialogue
<1>4. ASSUME NEW a \in Actors, MoveFailed(a) \/ \E areas \in SUBSET Areas : Observe(a, areas)
      PROVE  FloorInv'
  BY <1>1, <1>4 DEF MoveFailed, Observe
<1>5. CASE PassTime
  BY <1>1, <1>5 DEF PassTime
<1> QED BY <1>2, <1>3, <1>4, <1>5 DEF Commands

-----------------------------------------------------------------------------
(* What is left of the session's steps.                                    *)

LEMMA PlainDoes ==
    ASSUME TxRemembers, FloorInv, NEW name, Step(name), name \notin {"keep", "turns", "announce"},
           NEW written, NEW signals, NEW reported, Does(written, signals, reported),
           Floor \notin DOMAIN written,
           \A c \in Conversations : Talk(c) \in DOMAIN written => AtALine(written[Talk(c)], c)
    PROVE  FloorInv'
<1>1. agenda # <<>> /\ Plain(agenda[1])
  BY DEF Step, Plain
<1>2. Work(written, scalars, signals, reported) /\ agenda' = Rest /\ doing' = doing
  BY DEF Does
<1> QED BY <1>1, <1>2, PlainWork

\* A step that writes nothing, or one record that is neither the floor nor a
\* conversation.
LEMMA OtherDoes ==
    ASSUME TxRemembers, FloorInv, NEW name, Step(name), name \notin {"keep", "turns", "announce"},
           NEW written, NEW signals, NEW reported, Does(written, signals, reported),
           Floor \notin DOMAIN written, \A c \in Conversations : Talk(c) \notin DOMAIN written
    PROVE  FloorInv'
BY PlainDoes

LEMMA OnlyDoes ==
    ASSUME TxRemembers, FloorInv, NEW name, Step(name), name \notin {"keep", "turns", "announce"},
           NEW k, NEW value, NEW signals, NEW reported, Does(Only(k, value), signals, reported),
           k # Floor, \A c : Talk(c) # k
    PROVE  FloorInv'
<1>1. DOMAIN Only(k, value) = {k}
  BY OnlyIs
<1> QED BY <1>1, OtherDoes

LEMMA NothingDoes ==
    ASSUME TxRemembers, FloorInv, NEW name, Step(name), name \notin {"keep", "turns", "announce"},
           NEW signals, NEW reported, Does(NoRecords, signals, reported)
    PROVE  FloorInv'
BY OtherDoes, NothingWritten

LEMMA TalkDoes ==
    ASSUME TxRemembers, FloorInv, NEW name, Step(name), name \notin {"keep", "turns", "announce"},
           NEW c, NEW talk, NEW signals, NEW reported, Does(Only(Talk(c), talk), signals, reported),
           c \in Conversations => AtALine(talk, c)
    PROVE  FloorInv'
<1>1. DOMAIN Only(Talk(c), talk) = {Talk(c)} /\ Only(Talk(c), talk)[Talk(c)] = talk
  BY OnlyIs
<1>2. Floor # Talk(c) /\ \A d : Talk(d) = Talk(c) => d = c
  BY KeysAreRecords
<1> QED BY <1>1, <1>2, PlainDoes

\* A conversation that proceeds is at one of its lines, or complete.
LEMMA ProceedsToALine ==
    ASSUME NEW c, NEW run, NEW line \in Nat \ {0}
    PROVE  c \in Conversations => AtALine(Proceeds(c, run, line), c)
<1> SUFFICES ASSUME c \in Conversations PROVE AtALine(Proceeds(c, run, line), c)
  OBVIOUS
<1>1. LinesOf[c] \in Seq(Seq(Deed))
  BY ContentAssumption
<1>2. Len(LinesOf[c]) \in Nat /\ DOMAIN LinesOf[c] = 1 .. Len(LinesOf[c])
  BY <1>1
<1> QED BY <1>2 DEF AtALine, Proceeds

LEMMA FirstIsSound ==
    ASSUME FloorInv, agenda # <<>>
    PROVE  Sound(agenda[1])
<1>1. PICK S : agenda \in Seq(S) /\ \A step \in S : Sound(step)
  BY DEF FloorInv, IsList
<1>2. agenda[1] \in S
  BY <1>1, AgendaIs DEF FloorInv
<1> QED BY <1>1, <1>2

LEMMA ContentKeepsFloor ==
    ASSUME TxRemembers, FloorInv,
           SetVariable \/ FlipVariable \/ RequestMove \/ QueueStart
             \/ BeginTalk \/ PresentLine \/ InterruptTalk \/ ReportEvent
    PROVE  FloorInv'
<1>1. CASE SetVariable
  BY <1>1, OnlyDoes, OtherKeys DEF SetVariable
<1>2. CASE FlipVariable
  BY <1>2, OnlyDoes, OtherKeys DEF FlipVariable
<1>3. CASE RequestMove
  BY <1>3, OnlyDoes, NothingDoes, OtherKeys DEF RequestMove
<1>4. CASE QueueStart
  BY <1>4, OnlyDoes, KeysAreRecords DEF QueueStart
<1>5. CASE BeginTalk
  <2>1. PICK c, run, reported :
          Step("begin") /\ Does(Only(Talk(c), Proceeds(c, run, 1)), {}, reported)
    BY <1>5 DEF BeginTalk
  <2>2. c \in Conversations => AtALine(Proceeds(c, run, 1), c)
    BY ProceedsToALine
  <2> QED BY <2>1, <2>2, TalkDoes
<1>6. CASE PresentLine
  <2>1. PICK c, run :
          Step("present") /\ Does(Only(Talk(c), Proceeds(c, run, agenda[1].line + 1)), {}, <<>>)
    BY <1>6 DEF PresentLine
  <2>2. agenda[1].line \in Nat \ {0}
    BY <2>1, FirstIsSound DEF Step, Sound
  <2>3. agenda[1].line + 1 \in Nat \ {0}
    BY <2>2
  <2>4. c \in Conversations => AtALine(Proceeds(c, run, agenda[1].line + 1), c)
    BY <2>3, ProceedsToALine
  <2> QED BY <2>1, <2>4, TalkDoes
<1>7. CASE InterruptTalk
  <2>1. PICK c, run, line :
          /\ Step("interrupt")
          /\ Does(Only(Talk(c), [run |-> run, line |-> line, status |-> "interrupted"]), {}, <<>>)
    BY <1>7 DEF InterruptTalk
  <2>2. AtALine([run |-> run, line |-> line, status |-> "interrupted"], c)
    BY DEF AtALine
  <2> QED BY <2>1, <2>2, TalkDoes
<1>8. CASE ReportEvent
  BY <1>8, NothingDoes DEF ReportEvent
<1> QED BY <1>1, <1>2, <1>3, <1>4, <1>5, <1>6, <1>7, <1>8

LEMMA ReportsKeepFloor ==
    ASSUME TxRemembers, FloorInv,
           ObserveAreas \/ FailMove \/ AdvanceTime \/ PopWork \/ ForgetMove \/ MarkFired
    PROVE  FloorInv'
<1>1. CASE ObserveAreas
  <2> DEFINE a == agenda[1].actor
             walk == state[Movement(a)]
             arrived == walk # None /\ walk.to \in agenda[1].areas
             touched == {Location(a)} \cup IF arrived THEN {Movement(a)} ELSE {}
             written == [k \in touched |-> IF k = Location(a) THEN agenda[1].areas ELSE None]
  <2>1. Step("observe") /\ \E signals, reported : Does(written, signals, reported)
    BY <1>1 DEF ObserveAreas
  <2>2. DOMAIN written \subseteq {Location(a), Movement(a)}
    OBVIOUS
  <2> HIDE DEF written
  <2>3. Floor \notin DOMAIN written /\ \A c : Talk(c) \notin DOMAIN written
    BY <2>2, OtherKeys
  <2> QED BY <2>1, <2>3, OtherDoes
<1>2. CASE FailMove
  BY <1>2, OnlyDoes, OtherKeys DEF FailMove
<1>3. CASE AdvanceTime
  <2>1. PICK clock : Work(NoRecords, clock, {}, <<>>)
    BY <1>3 DEF AdvanceTime
  <2>2. agenda # <<>> /\ Plain(agenda[1]) /\ agenda' = Rest /\ doing' = doing
    BY <1>3 DEF AdvanceTime, Step, Plain
  <2> QED BY <2>1, <2>2, NothingWritten, PlainWork
<1>4. CASE PopWork
  BY <1>4, OnlyDoes, KeysAreRecords DEF PopWork
<1>5. CASE ForgetMove
  BY <1>5, OnlyDoes, OtherKeys DEF ForgetMove
<1>6. CASE MarkFired
  BY <1>6, OnlyDoes, OtherKeys DEF MarkFired
<1> QED BY <1>1, <1>2, <1>3, <1>4, <1>5, <1>6

LEMMA QueuedWorkKeepsFloor ==
    ASSUME TxRemembers, FloorInv, ProcessNext \/ DropNext \/ Settled \/ TryTrigger \/ StartTalk
    PROVE  FloorInv'
<1>1. CASE ProcessNext
  <2> DEFINE pop == [do |-> "pop"]
             steps == StepsOf(Head(state[Pending]))
  <2>1. \/ \E a : Transact("work", << [do |-> "fail", actor |-> a] >>)
        \/ Transact("work", <<pop>> \o steps)
    BY <1>1 DEF ProcessNext
  <2>2. Plain(pop) /\ Sound(pop)
    BY DEF Plain, Sound
  <2> HIDE DEF pop
  <2>3. AllPlain(<<pop>> \o steps)
    BY <2>2, OnePlain, WorkIsPlain, JoinedPlain
  <2> HIDE DEF steps
  <2> QED BY <2>1, <2>3, PlainTransact, OneStepTransact
<1>2. CASE DropNext
  <2>1. PICK step :
          Transact("drop", <<step>>) /\ step.do \notin {"keep", "turns", "announce", "try", "present"}
    BY <1>2 DEF DropNext
  <2> QED BY <2>1, OneStepTransact
<1>3. CASE Settled
  BY <1>3 DEF Settled, txVars, FloorInv, Open, Top, Ahead, Behind
<1>4. CASE TryTrigger
  <2> DEFINE t == agenda[1].trigger
             fired == [do |-> "fired", trigger |-> t]
  <2>1. Step("try") /\ \/ \E done, failed : Attempt(DeedsOf[t] \o <<fired>>, done, failed)
                       \/ Does(NoRecords, {}, <<>>)
    BY <1>4 DEF TryTrigger
  <2>2. Open /\ agenda # <<>> /\ Plain(agenda[1])
    BY <2>1 DEF Step, Plain
  <2>3. t \in Triggers
    BY <2>1, FirstIsSound DEF Step, Sound
  <2>4. AllPlain(DeedsOf[t])
    BY <2>3, ContentAssumption, DeedsArePlain
  <2>5. Plain(fired) /\ Sound(fired)
    BY DEF Plain, Sound
  <2> HIDE DEF fired
  <2>6. AllPlain(DeedsOf[t] \o <<fired>>)
    BY <2>4, <2>5, OnePlain, JoinedPlain
  <2> QED BY <2>1, <2>2, <2>6, AttemptKeepsFloor, NothingDoes DEF AllPlain
<1>5. CASE StartTalk
  <2> DEFINE begin == [do |-> "begin", conversation |-> agenda[1].conversation]
  <2>1. Step("start") /\ \/ \E done, failed : Attempt(<<begin>>, done, failed)
                         \/ \E reported : Does(NoRecords, {}, reported)
    BY <1>5 DEF StartTalk
  <2>2. Open /\ agenda # <<>> /\ Plain(agenda[1])
    BY <2>1 DEF Step, Plain
  <2>3. Plain(begin) /\ Sound(begin)
    BY DEF Plain, Sound
  <2> HIDE DEF begin
  <2>4. AllPlain(<<begin>>)
    BY <2>3, OnePlain
  <2> QED BY <2>1, <2>2, <2>4, AttemptKeepsFloor, NothingDoes DEF AllPlain
<1> QED BY <1>1, <1>2, <1>3, <1>4, <1>5

LEMMA SessionKeepsFloor ==
    ASSUME TxRemembers, FloorInv, SessionNext
    PROVE  FloorInv'
BY CommandsKeepFloor, TurnsKeepFloor, AnnounceKeepsFloor, CommitKeepsFloor, KeepAttemptKeepsFloor,
   UndoAttemptKeepsFloor, RollBackKeepsFloor, ContentKeepsFloor, ReportsKeepFloor,
   QueuedWorkKeepsFloor
   DEF SessionNext, SessionWork

LEMMA NewStateHolds == FloorHolds(NewState) /\ TalksHold(NewState)
<1>1. NewState[Floor] = [m \in Modes |-> <<>>]
  <2>1. /\ Floor \notin {Location(a) : a \in Actors} /\ Floor \notin {Variable(v) : v \in Variables}
        /\ Floor \notin {Fired(t) : t \in Triggers}
    BY OtherKeys
  <2> QED BY <2>1, KeysAreRecords DEF NewState
<1>2. ASSUME NEW c \in Conversations PROVE NewState[Talk(c)] = None
  <2>1. /\ Talk(c) \notin {Location(a) : a \in Actors} /\ Talk(c) \notin {Variable(v) : v \in Variables}
        /\ Talk(c) \notin {Fired(t) : t \in Triggers}
    BY OtherKeys
  <2> QED BY <2>1, KeysAreRecords DEF NewState
<1>3. FloorHolds(NewState)
  <2>1. <<>> \in Seq(Conversations) /\ IsInjective(<<>>) /\ ToSet(<<>>) = {}
    BY DEF IsInjective, ToSet
  <2>2. \A c \in Conversations : ~UnderWay(NewState, c)
    BY <1>2 DEF UnderWay
  <2> QED BY <1>1, <2>1, <2>2 DEF FloorHolds
<1>4. TalksHold(NewState)
  BY <1>2 DEF TalksHold, AtALine
<1> QED BY <1>3, <1>4

-----------------------------------------------------------------------------
(* Triggers that fire once: what their deeds set is set just when they     *)
(* count as fired, except while an attempt carries them out.               *)

Whole(t, records) ==
    Sets(t) => \/ records[Fired(t)] = TRUE /\ Done(t, records)
               \/ records[Fired(t)] = FALSE /\ ~Done(t, records)

\* The deeds that set something.
SetsAt(t) == {i \in DOMAIN DeedsOf[t] : DeedsOf[t][i].do = "set"}

\* The records whether it holds depends on.
KeysOf(t) == {Fired(t)} \cup {Variable(DeedsOf[t][i].variable) : i \in SetsAt(t)}

\* A step that may write one of them.
Concerns(step, t) ==
    \/ step.do = "fired" /\ step.trigger = t
    \/ \E i \in SetsAt(t) : Writes(step, DeedsOf[t][i].variable)

Foreign(list, t) == IsList(list) /\ \A k \in 1 .. Len(list) : ~Concerns(list[k], t)

\* The steps of list up to the e-th carry out the trigger: what is not set yet
\* is to be set by one of them.
RunsTo(list, records, t, e) ==
    /\ list[e].do = "fired" /\ list[e].trigger = t
    /\ list[e + 1].do = "keep"
    /\ \A j \in 1 .. e - 1 : \E i \in DOMAIN DeedsOf[t] : list[j] = DeedsOf[t][i]
    /\ \A j \in e + 2 .. Len(list) : ~Concerns(list[j], t)
    /\ \A i \in SetsAt(t) :
          \/ records[Variable(DeedsOf[t][i].variable)] = DeedsOf[t][i].value
          \/ \E j \in 1 .. e - 1 : list[j] = DeedsOf[t][i]

Running(list, records, t) == \E e \in 1 .. Len(list) - 1 : RunsTo(list, records, t, e)

TriggerInv(t) ==
    /\ \/ Whole(t, state) /\ Foreign(agenda, t)
       \/ Top > 1 /\ Running(agenda, state, t)
    /\ \A i \in 1 .. Top : Whole(t, copies[i].now.state)

TriggersInv == OwnDeeds => \A t \in Once : TriggerInv(t)

LEMMA TriggerKeys ==
    ASSUME OwnDeeds, NEW t \in Once
    PROVE  /\ t \in Triggers /\ DeedsOf[t] \in Seq(Deed) /\ KeysOf(t) \subseteq Records
           /\ \A i \in DOMAIN DeedsOf[t] : DeedsOf[t][i] \in Deed
           /\ Floor \notin KeysOf(t) /\ Pending \notin KeysOf(t)
           /\ \A x : Talk(x) \notin KeysOf(t) /\ Movement(x) \notin KeysOf(t)
                     /\ Location(x) \notin KeysOf(t)
           /\ \A u : Fired(u) \in KeysOf(t) => u = t
           /\ \A v : Variable(v) \in KeysOf(t) => \E i \in SetsAt(t) : v = DeedsOf[t][i].variable
<1>1. t \in Triggers /\ DeedsOf[t] \in Seq(Deed)
  BY ContentAssumption DEF OwnDeeds
<1>2. \A i \in DOMAIN DeedsOf[t] : DeedsOf[t][i] \in Deed
  BY <1>1
<1>3. \A deed \in Deed : deed.do = "set" => deed.variable \in Variables
  BY DEF Deed
<1>4. \A i \in SetsAt(t) : DeedsOf[t][i].variable \in Variables
  BY <1>2, <1>3 DEF SetsAt
<1>5. /\ Fired(t) \in Records /\ \A v \in Variables : Variable(v) \in Records
  BY <1>1, SessionAssumption DEF SessionRecords
<1>6. \A v, x : Variable(v) \notin {Floor, Pending, Talk(x), Movement(x), Location(x), Fired(x)}
  BY DEF Variable, Floor, Pending, Talk, Movement, Location, Fired
<1>7. \A x : Fired(t) \notin {Floor, Pending, Talk(x), Movement(x), Location(x)}
  BY DEF Floor, Pending, Talk, Movement, Location, Fired
<1>8. \A u, v : (Fired(u) = Fired(v) => u = v) /\ (Variable(u) = Variable(v) => u = v)
  BY DEF Fired, Variable
<1> QED BY <1>1, <1>2, <1>4, <1>5, <1>6, <1>7, <1>8 DEF KeysOf

LEMMA SameWhole ==
    ASSUME NEW t, NEW records, NEW other, \A k \in KeysOf(t) : other[k] = records[k],
           Whole(t, records)
    PROVE  Whole(t, other)
<1>1. other[Fired(t)] = records[Fired(t)]
  BY DEF KeysOf
<1>2. \A i \in SetsAt(t) : other[Variable(DeedsOf[t][i].variable)]
                            = records[Variable(DeedsOf[t][i].variable)]
  BY DEF KeysOf
<1>3. Done(t, other) <=> Done(t, records)
  BY <1>2 DEF Done, SetsAt
<1> QED BY <1>1, <1>3 DEF Whole

\* A step of the attempt that carries the trigger out.
LEMMA FrontDone ==
    ASSUME NEW list, IsList(list), list # <<>>, NEW t, NEW records, NEW other,
           ~(list[1].do = "fired" /\ list[1].trigger = t), Running(list, records, t),
           \A i \in SetsAt(t) :
              LET k == Variable(DeedsOf[t][i].variable)
              IN  \/ other[k] = DeedsOf[t][i].value
                  \/ other[k] = records[k] /\ list[1] # DeedsOf[t][i]
    PROVE  Running(Tail(list), other, t)
<1> DEFINE rest == Tail(list)
<1>1. /\ IsList(rest) /\ Len(list) \in Nat /\ Len(rest) \in Nat /\ Len(list) = 1 + Len(rest)
      /\ \A k \in 1 .. Len(rest) : list[1 + k] = rest[k]
  BY RestIs DEF Ends
<1> HIDE DEF rest
<1>2. PICK e \in 1 .. Len(list) - 1 : RunsTo(list, records, t, e)
  BY DEF Running
<1>3. e # 1
  BY <1>2 DEF RunsTo
<1>4. PICK n \in Nat : n + 1 = e /\ n \in 1 .. Len(rest) - 1
  <2>1. e - 1 \in Nat /\ (e - 1) + 1 = e /\ e - 1 \in 1 .. Len(rest) - 1
    BY <1>1, <1>3
  <2> QED BY <2>1
<1>5. /\ n \in 1 .. Len(rest) /\ n + 1 \in 1 .. Len(rest) /\ 1 + n = e /\ 1 + (n + 1) = e + 1
      /\ e - 1 = n
  BY <1>1, <1>4
<1>6. rest[n] = list[e] /\ rest[n + 1] = list[e + 1]
  BY <1>1, <1>5
<1>7. ASSUME NEW j \in 1 .. n - 1 PROVE \E i \in DOMAIN DeedsOf[t] : rest[j] = DeedsOf[t][i]
  <2>1. j \in 1 .. Len(rest) /\ 1 + j \in 1 .. e - 1
    BY <1>4
  <2> QED BY <1>1, <1>2, <2>1 DEF RunsTo
<1>8. ASSUME NEW j \in n + 2 .. Len(rest) PROVE ~Concerns(rest[j], t)
  <2>1. j \in 1 .. Len(rest) /\ 1 + j \in e + 2 .. Len(list)
    BY <1>1, <1>4
  <2> QED BY <1>1, <1>2, <2>1 DEF RunsTo
<1>9. ASSUME NEW i \in SetsAt(t)
      PROVE  \/ other[Variable(DeedsOf[t][i].variable)] = DeedsOf[t][i].value
             \/ \E j \in 1 .. n - 1 : rest[j] = DeedsOf[t][i]
  <2> DEFINE k == Variable(DeedsOf[t][i].variable)
  <2>1. CASE other[k] = DeedsOf[t][i].value
    BY <2>1
  <2>2. CASE other[k] = records[k] /\ list[1] # DeedsOf[t][i]
    <3>1. ASSUME NEW j \in 1 .. e - 1, list[j] = DeedsOf[t][i]
          PROVE  j - 1 \in 1 .. n - 1 /\ rest[j - 1] = DeedsOf[t][i]
      <4>1. j # 1
        BY <2>2, <3>1
      <4>2. j - 1 \in 1 .. n - 1 /\ j - 1 \in 1 .. Len(rest) /\ 1 + (j - 1) = j
        BY <1>4, <4>1
      <4>3. list[1 + (j - 1)] = rest[j - 1]
        BY <1>1, <4>2
      <4> QED BY <3>1, <4>2, <4>3
    <3> QED BY <1>2, <2>2, <3>1 DEF RunsTo
  <2> QED BY <2>1, <2>2
<1>10. RunsTo(rest, other, t, n)
  BY <1>2, <1>6, <1>7, <1>8, <1>9 DEF RunsTo
<1> QED BY <1>4, <1>10 DEF Running, rest

\* A step that does not concern the trigger is carried out.
LEMMA ForeignDone ==
    ASSUME NEW list, IsList(list), list # <<>>, NEW t, ~Concerns(list[1], t),
           NEW records, NEW other, \A k \in KeysOf(t) : other[k] = records[k]
    PROVE  /\ Foreign(list, t) => Foreign(Tail(list), t)
           /\ Running(list, records, t) => Running(Tail(list), other, t)
<1>1. ASSUME Foreign(list, t) PROVE Foreign(Tail(list), t)
  <2> DEFINE rest == Tail(list)
  <2>1. /\ IsList(rest) /\ Len(list) \in Nat /\ Len(rest) \in Nat /\ Len(list) = 1 + Len(rest)
        /\ \A k \in 1 .. Len(rest) : list[1 + k] = rest[k]
    BY RestIs DEF Ends
  <2> HIDE DEF rest
  <2>2. \A k \in 1 .. Len(rest) : 1 + k \in 1 .. Len(list)
    BY <2>1
  <2>3. Foreign(rest, t)
    BY <1>1, <2>1, <2>2 DEF Foreign
  <2> QED BY <2>3 DEF rest
<1>2. ~(list[1].do = "fired" /\ list[1].trigger = t)
  BY DEF Concerns
<1>3. \A i \in SetsAt(t) : /\ list[1] # DeedsOf[t][i]
                           /\ Variable(DeedsOf[t][i].variable) \in KeysOf(t)
  BY DEF Concerns, Writes, SetsAt, KeysOf
<1> QED BY <1>1, <1>2, <1>3, FrontDone

LEMMA OneForeign ==
    ASSUME NEW t, NEW step, Sound(step), ~Concerns(step, t)
    PROVE  Foreign(<<step>>, t)
<1> DEFINE list == <<step>>
<1>1. IsList(list) /\ Len(list) = 1 /\ list[1] = step
  BY SingleIs
<1> HIDE DEF list
<1>2. Foreign(list, t)
  BY <1>1 DEF Foreign
<1> QED BY <1>2 DEF list

LEMMA JoinedForeign ==
    ASSUME NEW t, NEW front, NEW rest, Foreign(front, t), Foreign(rest, t)
    PROVE  Foreign(front \o rest, t)
<1> DEFINE list == front \o rest
           N == Len(front)
           R == Len(rest)
<1>1. /\ IsList(list) /\ N \in Nat /\ R \in Nat /\ Len(list) = N + R
      /\ \A k \in 1 .. N : list[k] = front[k]
      /\ \A k \in 1 .. R : list[N + k] = rest[k]
  BY JoinedIs DEF Foreign, Ends
<1>2. (\A k \in 1 .. N : ~Concerns(front[k], t)) /\ (\A k \in 1 .. R : ~Concerns(rest[k], t))
  BY DEF Foreign
<1> HIDE DEF list, N, R
<1>3. ASSUME NEW k \in 1 .. Len(list) PROVE ~Concerns(list[k], t)
  <2>1. CASE k \in 1 .. N
    BY <1>1, <1>2, <2>1
  <2>2. CASE k \notin 1 .. N
    <3>1. k - N \in 1 .. R /\ N + (k - N) = k
      BY <1>1, <2>2
    <3>2. list[k] = rest[k - N]
      <4>1. list[N + (k - N)] = rest[k - N]
        BY <1>1, <3>1
      <4> QED BY <3>1, <4>1
    <3> QED BY <1>2, <3>1, <3>2
  <2> QED BY <2>1, <2>2
<1> QED BY <1>1, <1>3 DEF Foreign, list

LEMMA NothingForeign == \A t : Foreign(<<>>, t)
BY NothingLeft DEF Foreign

LEMMA ClosingForeign == \A t : Foreign(Closing, t)
<1> TAKE t
<1> DEFINE turns == [do |-> "turns"]
           announce == [do |-> "announce"]
           list == <<turns, announce>>
           S == {turns, announce}
<1>1. turns.do = "turns" /\ announce.do = "announce" /\ Closing = list
  BY DEF Closing
<1> HIDE DEF turns, announce
<1>2. \A step \in S : Sound(step) /\ ~Concerns(step, t)
  BY <1>1 DEF Sound, Concerns, Writes
<1>3. list \in Seq(S) /\ \A k \in 1 .. Len(list) : list[k] \in S
  OBVIOUS
<1> HIDE DEF list, S
<1>4. IsList(list)
  BY <1>2, <1>3 DEF IsList
<1> QED BY <1>1, <1>2, <1>3, <1>4 DEF Foreign

-----------------------------------------------------------------------------
(* What a step of the session does to a trigger.                           *)

\* The trigger whose attempt is under way, or none.
LEMMA Fronts ==
    ASSUME OwnDeeds, NEW t \in Once, NEW list, NEW records, Running(list, records, t)
    PROVE  \/ \E i \in DOMAIN DeedsOf[t] : list[1] = DeedsOf[t][i] /\ list[1] \in Deed
           \/ list[1].do = "fired" /\ list[1].trigger = t /\ Done(t, records)
<1>1. PICK e \in 1 .. Len(list) - 1 : RunsTo(list, records, t, e)
  BY DEF Running
<1>2. CASE e = 1
  <2>1. 1 .. e - 1 = {}
    BY <1>2
  <2> QED BY <1>1, <1>2, <2>1 DEF RunsTo, Done, SetsAt
<1>3. CASE e # 1
  <2>1. 1 \in 1 .. e - 1
    BY <1>3
  <2> QED BY <1>1, <2>1, TriggerKeys DEF RunsTo
<1> QED BY <1>2, <1>3

LEMMA FrontDoes ==
    ASSUME OwnDeeds, NEW t \in Once, NEW list, NEW records, Running(list, records, t)
    PROVE  list[1].do \in {"set", "flip", "move", "queue", "fired"}
<1>1. \A deed \in Deed : deed.do \in {"set", "flip", "move", "queue"}
  BY DEF Deed
<1> QED BY <1>1, Fronts

\* A step that does not concern the trigger.
LEMMA ForeignStep ==
    ASSUME OwnDeeds, NEW t \in Once, TxRemembers, FloorInv, TriggerInv(t),
           agenda # <<>>, ~Concerns(agenda[1], t), NEW written, NEW clock, NEW signals, NEW reported,
           Work(written, clock, signals, reported), agenda' = Rest,
           \A k \in KeysOf(t) : k \notin DOMAIN written
    PROVE  TriggerInv(t)'
<1>1. /\ Top' = Top /\ copies' = copies
      /\ \A k \in Records : state'[k] = IF k \in DOMAIN written THEN written[k] ELSE state[k]
  BY WorkIs
<1>2. \A k \in KeysOf(t) : state'[k] = state[k]
  BY <1>1, TriggerKeys
<1>3. /\ Foreign(agenda, t) => Foreign(agenda', t)
      /\ Running(agenda, state, t) => Running(agenda', state', t)
  <2>1. IsList(agenda) /\ agenda' = Tail(agenda)
    BY DEF FloorInv, Rest
  <2> QED BY <1>2, <2>1, ForeignDone
<1>4. Whole(t, state) => Whole(t, state')
  BY <1>2, SameWhole
<1> QED BY <1>1, <1>3, <1>4 DEF TriggerInv

\* An attempt ends, with the state it leaves or with the one it began with.
LEMMA TriggerAttemptEnds ==
    ASSUME NEW t, TxRemembers, TriggerInv(t), Top >= 1, Top' = Top - 1,
           \A i \in 1 .. Top - 1 : copies'[i] = copies[i],
           \/ state' = copies[Top].now.state
           \/ state' = state /\ Whole(t, state),
           Foreign(agenda', t)
    PROVE  TriggerInv(t)'
<1>1. Top \in Nat /\ Top \in 1 .. Top /\ \A i \in 1 .. Top - 1 : i \in 1 .. Top
  BY OpenIs
<1>2. Whole(t, state')
  BY <1>1 DEF TriggerInv
<1>3. \A i \in 1 .. Top' : Whole(t, copies'[i].now.state)
  BY <1>1 DEF TriggerInv
<1> QED BY <1>2, <1>3 DEF TriggerInv

\* A scope is entered while nothing carries the trigger out.
LEMMA ScopeEntered ==
    ASSUME NEW t, TxRemembers, TriggerInv(t), EnterScope, ~Running(agenda, state, t) \/ ~(Top > 1)
    PROVE  /\ Top' = Top + 1 /\ state' = state /\ Foreign(agenda, t) /\ Whole(t, state)
           /\ \A i \in 1 .. Top' : Whole(t, copies'[i].now.state)
<1>1. /\ Top' = Top + 1 /\ state' = state /\ copies'[Top + 1].now.state = state
      /\ \A i \in 1 .. Top : copies'[i] = copies[i]
  BY EnterIs DEF Now
<1>2. Top \in Nat /\ \A i \in 1 .. Top + 1 : i \in 1 .. Top \/ i = Top + 1
  BY OpenIs
<1>3. Foreign(agenda, t) /\ Whole(t, state)
  BY DEF TriggerInv
<1>4. \A i \in 1 .. Top + 1 : Whole(t, copies'[i].now.state)
  BY <1>1, <1>2, <1>3 DEF TriggerInv
<1> QED BY <1>1, <1>3, <1>4

\* What the trigger sets is written by nothing else, and by its deeds as they
\* say.
LEMMA OnlyItsDeeds ==
    ASSUME OwnDeeds, NEW t \in Once, NEW i \in SetsAt(t), NEW u \in Triggers,
           NEW j \in DOMAIN DeedsOf[u], Writes(DeedsOf[u][j], DeedsOf[t][i].variable)
    PROVE  u = t /\ DeedsOf[u][j] = DeedsOf[t][i]
BY DEF OwnDeeds, SetsAt

LEMMA SetStep ==
    ASSUME OwnDeeds, NEW t \in Once, TxRemembers, FloorInv, TriggerInv(t), SetVariable
    PROVE  TriggerInv(t)'
<1> DEFINE deed == agenda[1]
           k == Variable(deed.variable)
<1>1. /\ agenda # <<>> /\ deed.do = "set" /\ agenda' = Rest
      /\ Work(Only(k, deed.value), scalars, {}, <<>>)
  BY DEF SetVariable, Step, Does
<1>2. DOMAIN Only(k, deed.value) = {k} /\ Only(k, deed.value)[k] = deed.value
  BY OnlyIs
<1>3. CASE ~Concerns(deed, t)
  <2>1. k \notin KeysOf(t)
    BY <1>1, <1>3, TriggerKeys DEF Concerns, Writes
  <2> QED BY <1>1, <1>2, <1>3, <2>1, ForeignStep
<1>4. CASE Concerns(deed, t)
  <2>1. PICK i \in SetsAt(t) : Writes(deed, DeedsOf[t][i].variable)
    BY <1>1, <1>4 DEF Concerns
  <2>2. IsList(agenda) /\ 1 \in 1 .. Len(agenda)
    BY <1>1, AgendaIs DEF FloorInv
  <2>3. Top > 1 /\ Running(agenda, state, t)
    BY <1>4, <2>2 DEF TriggerInv, Foreign
  <2>4. PICK j \in DOMAIN DeedsOf[t] : deed = DeedsOf[t][j]
    BY <1>1, <2>3, Fronts
  <2>5. deed = DeedsOf[t][i] /\ t \in Triggers
    BY <2>1, <2>4, TriggerKeys, OnlyItsDeeds
  <2>6. /\ Top' = Top /\ copies' = copies
        /\ \A r \in Records : state'[r] = IF r = k THEN deed.value ELSE state[r]
    BY <1>1, <1>2, WorkIs
  <2>7. ASSUME NEW n \in SetsAt(t)
        PROVE  LET r == Variable(DeedsOf[t][n].variable)
               IN  \/ state'[r] = DeedsOf[t][n].value
                   \/ state'[r] = state[r] /\ agenda[1] # DeedsOf[t][n]
    <3> DEFINE r == Variable(DeedsOf[t][n].variable)
    <3>1. r \in Records
      BY TriggerKeys DEF KeysOf
    <3>2. CASE DeedsOf[t][n] = deed
      BY <2>6, <3>1, <3>2
    <3>3. CASE DeedsOf[t][n] # deed
      <4>1. DeedsOf[t][n].variable # deed.variable
        <5>1. Writes(DeedsOf[t][n], DeedsOf[t][i].variable) => DeedsOf[t][n] = DeedsOf[t][i]
          BY <2>5, OnlyItsDeeds DEF SetsAt
        <5> QED BY <2>5, <3>3, <5>1 DEF Writes, SetsAt
      <4>2. r # k
        BY <4>1 DEF Variable
      <4> QED BY <2>6, <3>1, <3>3, <4>2
    <3> QED BY <3>2, <3>3
  <2>8. Running(agenda', state', t)
    <3>1. agenda' = Tail(agenda) /\ ~(agenda[1].do = "fired" /\ agenda[1].trigger = t)
      BY <1>1 DEF Rest
    <3> QED BY <1>1, <2>2, <2>3, <2>7, <3>1, FrontDone
  <2> QED BY <2>3, <2>6, <2>8 DEF TriggerInv
<1> QED BY <1>3, <1>4

LEMMA FlipStep ==
    ASSUME OwnDeeds, NEW t \in Once, TxRemembers, FloorInv, TriggerInv(t), FlipVariable
    PROVE  TriggerInv(t)'
<1> DEFINE deed == agenda[1]
           k == Variable(deed.variable)
<1>1. /\ agenda # <<>> /\ deed.do = "flip" /\ agenda' = Rest
      /\ Work(Only(k, 1 - state[k]), scalars, {}, <<>>)
  BY DEF FlipVariable, Step, Does
<1>2. DOMAIN Only(k, 1 - state[k]) = {k}
  BY OnlyIs
<1>3. ~Concerns(deed, t)
  <2>1. SUFFICES ASSUME Concerns(deed, t) PROVE FALSE
    OBVIOUS
  <2>2. PICK i \in SetsAt(t) : Writes(deed, DeedsOf[t][i].variable)
    BY <1>1, <2>1 DEF Concerns
  <2>3. 1 \in 1 .. Len(agenda)
    BY <1>1, AgendaIs DEF FloorInv
  <2>4. Running(agenda, state, t)
    BY <2>1, <2>3 DEF TriggerInv, Foreign
  <2>5. PICK j \in DOMAIN DeedsOf[t] : deed = DeedsOf[t][j]
    BY <1>1, <2>4, Fronts
  <2>6. deed = DeedsOf[t][i]
    BY <2>2, <2>5, TriggerKeys, OnlyItsDeeds
  <2> QED BY <1>1, <2>6 DEF SetsAt
<1>4. k \notin KeysOf(t)
  BY <1>1, <1>3, TriggerKeys DEF Concerns, Writes
<1> QED BY <1>1, <1>2, <1>3, <1>4, ForeignStep

LEMMA FiredStep ==
    ASSUME OwnDeeds, NEW t \in Once, TxRemembers, FloorInv, TriggerInv(t), MarkFired
    PROVE  TriggerInv(t)'
<1> DEFINE u == agenda[1].trigger
           k == Fired(u)
<1>1. /\ agenda # <<>> /\ agenda[1].do = "fired" /\ agenda' = Rest
      /\ Work(Only(k, TRUE), scalars, {}, <<>>)
  BY DEF MarkFired, Step, Does
<1>2. DOMAIN Only(k, TRUE) = {k} /\ Only(k, TRUE)[k] = TRUE
  BY OnlyIs
<1>3. CASE u # t
  <2>1. ~Concerns(agenda[1], t)
    BY <1>1, <1>3 DEF Concerns, Writes
  <2>2. k \notin KeysOf(t)
    BY <1>3, TriggerKeys
  <2> QED BY <1>1, <1>2, <2>1, <2>2, ForeignStep
<1>4. CASE u = t
  <2>1. Concerns(agenda[1], t)
    BY <1>1, <1>4 DEF Concerns
  <2>2. IsList(agenda) /\ 1 \in 1 .. Len(agenda)
    BY <1>1, AgendaIs DEF FloorInv
  <2>3. Running(agenda, state, t)
    BY <2>1, <2>2 DEF TriggerInv, Foreign
  <2>4. Done(t, state)
    <3>1. \A deed \in Deed : deed.do # "fired"
      BY DEF Deed
    <3> QED BY <1>1, <2>3, <3>1, Fronts
  <2>5. /\ Top' = Top /\ copies' = copies
        /\ \A r \in Records : state'[r] = IF r = k THEN TRUE ELSE state[r]
    BY <1>1, <1>2, WorkIs
  <2>6. state'[Fired(t)] = TRUE
    BY <1>4, <2>5, TriggerKeys DEF KeysOf
  <2>7. Done(t, state')
    <3>1. \A i \in SetsAt(t) : Variable(DeedsOf[t][i].variable) \in Records
      BY TriggerKeys DEF KeysOf
    <3>2. \A v : Variable(v) # k
      BY DEF Variable, Fired
    <3> QED BY <2>4, <2>5, <3>1, <3>2 DEF Done, SetsAt
  <2>8. Foreign(agenda', t)
    <3> DEFINE rest == Tail(agenda)
    <3>1. /\ IsList(rest) /\ Len(agenda) \in Nat /\ Len(rest) \in Nat
          /\ Len(agenda) = 1 + Len(rest)
          /\ \A n \in 1 .. Len(rest) : agenda[1 + n] = rest[n]
      BY <1>1, <2>2, RestIs DEF Ends
    <3> HIDE DEF rest
    <3>2. PICK e \in 1 .. Len(agenda) - 1 : RunsTo(agenda, state, t, e)
      BY <2>3 DEF Running
    <3>3. e = 1
      <4>1. SUFFICES ASSUME e # 1 PROVE FALSE
        OBVIOUS
      <4>2. 1 \in 1 .. e - 1
        BY <4>1
      <4>3. agenda[1] \in Deed
        BY <3>2, <4>2, TriggerKeys DEF RunsTo
      <4> QED BY <1>1, <4>3 DEF Deed
    <3>4. /\ agenda[2].do = "keep" /\ \A j \in 3 .. Len(agenda) : ~Concerns(agenda[j], t)
      BY <3>2, <3>3 DEF RunsTo
    <3>5. \A n \in 1 .. Len(rest) : 1 + n = 2 \/ 1 + n \in 3 .. Len(agenda)
      BY <3>1
    <3>6. ~Concerns(agenda[2], t)
      BY <3>4 DEF Concerns, Writes
    <3>7. Foreign(rest, t)
      BY <3>1, <3>4, <3>5, <3>6 DEF Foreign
    <3> QED BY <1>1, <3>7 DEF rest, Rest
  <2>9. Whole(t, state')
    BY <2>6, <2>7 DEF Whole
  <2> QED BY <2>5, <2>8, <2>9 DEF TriggerInv
<1> QED BY <1>3, <1>4

LEMMA KeepAttemptStep ==
    ASSUME OwnDeeds, NEW t \in Once, TxRemembers, FloorInv, TriggerInv(t), KeepAttempt
    PROVE  TriggerInv(t)'
<1> DEFINE step == [do |-> "report", event |-> agenda[1].done]
<1>1. Sound(step) /\ ~Concerns(step, t)
  BY DEF Sound, Concerns, Writes
<1>2. /\ KeepScope /\ agenda # <<>> /\ agenda[1].do = "keep" /\ agenda' = <<step>> \o Tail(agenda)
  BY DEF KeepAttempt, Step, Rest
<1> HIDE DEF step
<1>3. /\ Top >= 1 /\ Top' = Top - 1 /\ state' = state
      /\ \A i \in 1 .. Top - 1 : copies'[i] = copies[i]
  BY <1>2, KeepIs
<1>4. ~Running(agenda, state, t)
  BY <1>2, FrontDoes
<1>5. Whole(t, state) /\ Foreign(agenda, t) /\ IsList(agenda) /\ ~Concerns(agenda[1], t)
  BY <1>2, <1>4 DEF TriggerInv, FloorInv, Concerns, Writes
<1>6. Foreign(Tail(agenda), t)
  BY <1>2, <1>5, ForeignDone
<1>7. Foreign(agenda', t)
  BY <1>1, <1>2, <1>6, OneForeign, JoinedForeign
<1> QED BY <1>3, <1>5, <1>7, TriggerAttemptEnds

\* What is left after an attempt is undone.
LEMMA RestForeign ==
    ASSUME OwnDeeds, NEW t \in Once, NEW list, IsList(list), NEW records,
           Foreign(list, t) \/ Running(list, records, t),
           NEW end \in DOMAIN list, list[end].do = "keep",
           \A j \in 1 .. end - 1 : list[j].do # "keep"
    PROVE  Foreign(SubSeq(list, end + 1, Len(list)), t)
<1> DEFINE L == Len(list)
           rest == SubSeq(list, end + 1, L)
<1>1. PICK S : list \in Seq(S) /\ \A step \in S : Sound(step)
  BY DEF IsList
<1>2. L \in Nat /\ end \in 1 .. L
  BY <1>1
<1>3. /\ rest \in Seq(S) /\ Len(rest) = L - end
      /\ \A i \in 1 .. L - end : rest[i] = list[end + i]
  <2>1. end + 1 \in 1 .. L + 1 /\ \A i \in end + 1 .. L : list[i] \in S
    BY <1>1, <1>2
  <2>2. rest \in Seq(S)
    BY <1>1, <1>2
  <2>3. Len(rest) = L - end
    BY <1>1, <1>2
  <2>4. \A i \in 1 .. L - end : rest[i] = list[end + i]
    BY <1>1, <1>2
  <2> QED BY <2>2, <2>3, <2>4
<1> HIDE DEF rest
<1>4. IsList(rest)
  BY <1>1, <1>3 DEF IsList
<1>5. CASE Foreign(list, t)
  <2>1. \A i \in 1 .. L - end : end + i \in 1 .. L
    BY <1>2
  <2> QED BY <1>3, <1>4, <1>5, <2>1 DEF Foreign, rest
<1>6. CASE Running(list, records, t)
  <2>1. PICK e \in 1 .. L - 1 : RunsTo(list, records, t, e)
    BY <1>6 DEF Running
  <2>2. \A deed \in Deed : deed.do # "keep"
    BY DEF Deed
  <2>3. \A j \in 1 .. e - 1 : list[j].do # "keep"
    BY <2>1, <2>2, TriggerKeys DEF RunsTo
  <2>4. list[e].do # "keep" /\ list[e + 1].do = "keep"
    BY <2>1 DEF RunsTo
  <2>5. end = e + 1
    <3>1. end \notin 1 .. e - 1 /\ end # e /\ e + 1 \notin 1 .. end - 1
      BY <2>3, <2>4
    <3> QED BY <1>2, <3>1
  <2>6. \A i \in 1 .. L - end : end + i \in e + 2 .. L
    BY <1>2, <2>5
  <2>7. \A i \in 1 .. L - end : ~Concerns(list[end + i], t)
    BY <2>1, <2>6 DEF RunsTo
  <2> QED BY <1>3, <1>4, <2>7 DEF Foreign, rest
<1> QED BY <1>5, <1>6

LEMMA UndoAttemptStep ==
    ASSUME OwnDeeds, NEW t \in Once, TxRemembers, FloorInv, TriggerInv(t), UndoAttempt
    PROVE  TriggerInv(t)'
<1> DEFINE IsEnd(i) == /\ agenda[i].do = "keep"
                       /\ \A j \in 1 .. i - 1 : agenda[j].do # "keep"
           end == CHOOSE i \in DOMAIN agenda : IsEnd(i)
           step == [do |-> "report", event |-> agenda[end].failed]
           rest == SubSeq(agenda, end + 1, Len(agenda))
<1>1. Sound(step) /\ ~Concerns(step, t)
  BY DEF Sound, Concerns, Writes
<1>2. UndoScope /\ Top > 1 /\ agenda' = <<step>> \o rest
  BY DEF UndoAttempt
<1> HIDE DEF step
<1>3. /\ Top >= 1 /\ Top' = Top - 1 /\ state' = copies[Top].now.state
      /\ \A i \in 1 .. Top - 1 : copies'[i] = copies[i]
  BY <1>2, UndoIs
<1>4. IsList(agenda) /\ (Foreign(agenda, t) \/ Running(agenda, state, t))
  BY DEF FloorInv, TriggerInv
<1>5. end \in DOMAIN agenda /\ IsEnd(end)
  <2>1. Ahead /\ Top \in Nat
    BY <1>2, OpenIs DEF FloorInv, Behind
  <2>2. Plain(step)
    BY DEF Plain, step
  <2> QED BY <1>1, <1>2, <1>4, <2>1, <2>2, AttemptUndone DEF Ahead
<1>6. Foreign(rest, t)
  <2> HIDE DEF end
  <2> QED BY <1>4, <1>5, RestForeign
<1>7. Foreign(agenda', t)
  <2> HIDE DEF rest
  <2> QED BY <1>1, <1>2, <1>6, OneForeign, JoinedForeign
<1> QED BY <1>3, <1>7, TriggerAttemptEnds

LEMMA RollBackStep ==
    ASSUME NEW t, TxRemembers, TriggerInv(t), RollBack
    PROVE  TriggerInv(t)'
<1>1. Top = 1 /\ UndoScope /\ agenda' = <<>>
  BY DEF RollBack
<1>2. /\ Top >= 1 /\ Top' = Top - 1 /\ state' = copies[Top].now.state
      /\ \A i \in 1 .. Top - 1 : copies'[i] = copies[i]
  BY <1>1, UndoIs
<1> QED BY <1>1, <1>2, NothingForeign, TriggerAttemptEnds

LEMMA CommitStep ==
    ASSUME NEW t, TxRemembers, TriggerInv(t), Commit
    PROVE  TriggerInv(t)'
<1>1. /\ Top >= 1 /\ Top' = Top - 1 /\ state' = state /\ Top = 1 /\ agenda' = agenda
      /\ \A i \in 1 .. Top - 1 : copies'[i] = copies[i]
  BY KeepIs DEF Commit
<1>2. Whole(t, state) /\ Foreign(agenda', t)
  BY <1>1 DEF TriggerInv
<1> QED BY <1>1, <1>2, TriggerAttemptEnds

LEMMA TransactStep ==
    ASSUME NEW t, TxRemembers, TriggerInv(t), NEW what, NEW steps, Transact(what, steps),
           Foreign(steps, t)
    PROVE  TriggerInv(t)'
<1>1. ~Open /\ EnterScope /\ agenda' = steps \o Closing
  BY DEF Transact
<1>2. ~(Top > 1)
  BY <1>1, OpenIs
<1>3. /\ state' = state /\ Whole(t, state) /\ \A i \in 1 .. Top' : Whole(t, copies'[i].now.state)
  BY <1>1, <1>2, ScopeEntered
<1>4. Foreign(agenda', t)
  BY <1>1, ClosingForeign, JoinedForeign
<1> QED BY <1>3, <1>4 DEF TriggerInv

\* What an attempt of a transaction has to do.
LEMMA AttemptIs ==
    ASSUME OwnDeeds, NEW t \in Once, TxRemembers, FloorInv, TriggerInv(t), Open, agenda # <<>>,
           agenda[1].do \in {"try", "start"}, NEW steps, NEW done, NEW failed,
           Attempt(steps, done, failed), IsList(steps)
    PROVE  /\ Top' > 1 /\ state' = state /\ Whole(t, state)
           /\ \A i \in 1 .. Top' : Whole(t, copies'[i].now.state)
           /\ \E keep, rest : /\ keep.do = "keep" /\ Foreign(<<keep>>, t) /\ Foreign(rest, t)
                              /\ agenda' = steps \o <<keep>> \o rest
<1> DEFINE keep == [do |-> "keep", done |-> done, failed |-> failed]
<1>1. EnterScope /\ agenda' = steps \o <<keep>> \o Tail(agenda)
  BY DEF Attempt, Rest
<1>2. keep.do = "keep" /\ Sound(keep) /\ ~Concerns(keep, t)
  BY DEF Sound, Concerns, Writes
<1> HIDE DEF keep
<1>3. ~Running(agenda, state, t)
  BY FrontDoes
<1>4. /\ Top' = Top + 1 /\ state' = state /\ Foreign(agenda, t) /\ Whole(t, state)
      /\ \A i \in 1 .. Top' : Whole(t, copies'[i].now.state)
  BY <1>1, <1>3, ScopeEntered
<1>5. Top' > 1
  BY <1>4, OpenIs
<1>6. Foreign(Tail(agenda), t)
  <2>1. IsList(agenda) /\ ~Concerns(agenda[1], t)
    BY DEF FloorInv, Concerns, Writes
  <2> QED BY <1>4, <2>1, ForeignDone
<1> QED BY <1>1, <1>2, <1>4, <1>5, <1>6, OneForeign

LEMMA AttemptStep ==
    ASSUME OwnDeeds, NEW t \in Once, TxRemembers, FloorInv, TriggerInv(t), Open, agenda # <<>>,
           agenda[1].do \in {"try", "start"}, NEW steps, NEW done, NEW failed,
           Attempt(steps, done, failed), Foreign(steps, t)
    PROVE  TriggerInv(t)'
<1>1. /\ state' = state /\ Whole(t, state) /\ \A i \in 1 .. Top' : Whole(t, copies'[i].now.state)
      /\ \E keep, rest : /\ Foreign(<<keep>>, t) /\ Foreign(rest, t)
                         /\ agenda' = steps \o <<keep>> \o rest
  BY AttemptIs DEF Foreign
<1>2. Foreign(agenda', t)
  BY <1>1, JoinedForeign
<1> QED BY <1>1, <1>2 DEF TriggerInv

\* An attempt to carry the trigger out.
LEMMA AttemptRuns ==
    ASSUME OwnDeeds, NEW t \in Once, NEW fired, fired.do = "fired", fired.trigger = t, Sound(fired),
           NEW keep, keep.do = "keep", Foreign(<<keep>>, t), NEW rest, Foreign(rest, t), NEW records
    PROVE  Running(DeedsOf[t] \o <<fired>> \o <<keep>> \o rest, records, t)
<1> DEFINE D == DeedsOf[t]
           front == D \o <<fired>>
           middle == front \o <<keep>>
           list == middle \o rest
           N == Len(D)
<1>1. IsList(D)
  BY TriggerKeys, DeedsArePlain DEF AllPlain
<1>2. IsList(<<fired>>) /\ Len(<<fired>>) = 1 /\ <<fired>>[1] = fired
  BY SingleIs
<1>3. IsList(<<keep>>) /\ Len(<<keep>>) = 1 /\ <<keep>>[1] = keep
  BY DEF Foreign
<1>4. /\ IsList(front) /\ N \in Nat /\ Len(front) = N + 1 /\ front[N + 1] = fired
      /\ \A k \in 1 .. N : front[k] = D[k]
  <2>1. 1 \in 1 .. Len(<<fired>>)
    BY <1>2
  <2> QED BY <1>1, <1>2, <2>1, JoinedIs DEF Ends
<1> HIDE DEF front
<1>5. /\ IsList(middle) /\ Len(middle) = N + 2 /\ middle[N + 2] = keep
      /\ \A k \in 1 .. N + 1 : middle[k] = front[k]
  <2>1. 1 \in 1 .. Len(<<keep>>)
    BY <1>3
  <2>2. /\ IsList(middle) /\ Len(middle) = (N + 1) + 1 /\ middle[(N + 1) + 1] = keep
        /\ \A k \in 1 .. N + 1 : middle[k] = front[k]
    BY <1>3, <1>4, <2>1, JoinedIs DEF Ends
  <2>3. (N + 1) + 1 = N + 2
    BY <1>4
  <2> QED BY <2>2, <2>3
<1> HIDE DEF middle
<1>6. IsList(rest) /\ \A k \in 1 .. Len(rest) : ~Concerns(rest[k], t)
  BY DEF Foreign
<1>7. /\ Len(list) = N + 2 + Len(rest) /\ Len(rest) \in Nat
      /\ \A k \in 1 .. N + 2 : list[k] = middle[k]
      /\ \A k \in 1 .. Len(rest) : list[N + 2 + k] = rest[k]
  <2>1. /\ Len(list) = Len(middle) + Len(rest) /\ Len(rest) \in Nat
        /\ \A k \in 1 .. Len(middle) : list[k] = middle[k]
        /\ \A k \in 1 .. Len(rest) : list[Len(middle) + k] = rest[k]
    <3>1. Ends(list, Len(middle), rest) /\ \A k \in 1 .. Len(middle) : list[k] = middle[k]
      BY <1>5, <1>6, JoinedIs
    <3> HIDE DEF list
    <3> QED BY <3>1 DEF Ends
  <2> HIDE DEF list
  <2> QED BY <1>5, <2>1
<1> HIDE DEF list, N
<1>8. PICK e \in Nat : e = N + 1
  BY <1>4
<1>9. e \in 1 .. Len(list) - 1 /\ e + 1 = N + 2 /\ e - 1 = N /\ e \in 1 .. N + 2 /\ e \in 1 .. N + 1
      /\ e + 1 \in 1 .. N + 2 /\ \A k \in 1 .. N : k \in 1 .. N + 1 /\ k \in 1 .. N + 2
  BY <1>4, <1>7, <1>8
<1>10. list[e] = fired /\ list[e + 1] = keep /\ \A k \in 1 .. N : list[k] = D[k]
  BY <1>4, <1>5, <1>7, <1>8, <1>9
<1>11. ASSUME NEW j \in e + 2 .. Len(list) PROVE ~Concerns(list[j], t)
  <2>1. j - (N + 2) \in 1 .. Len(rest) /\ N + 2 + (j - (N + 2)) = j
    <3>1. PICK n \in Nat : n = Len(rest)
      BY <1>7
    <3>2. j \in N + 3 .. N + 2 + n
      BY <1>4, <1>7, <1>8, <3>1
    <3> QED BY <1>4, <3>1, <3>2
  <2>2. list[N + 2 + (j - (N + 2))] = rest[j - (N + 2)]
    BY <1>7, <2>1
  <2> QED BY <1>6, <2>1, <2>2
<1>12. DOMAIN D = 1 .. N
  BY TriggerKeys DEF N
<1>13. RunsTo(list, records, t, e)
  BY <1>9, <1>10, <1>11, <1>12 DEF RunsTo, SetsAt
<1>14. Running(list, records, t)
  BY <1>9, <1>13 DEF Running
<1> QED BY <1>14 DEF list, middle, front

LEMMA TryStep ==
    ASSUME OwnDeeds, NEW t \in Once, TxRemembers, FloorInv, TriggerInv(t), TryTrigger
    PROVE  TriggerInv(t)'
<1> DEFINE u == agenda[1].trigger
           fired == [do |-> "fired", trigger |-> u]
<1>1. /\ Open /\ agenda # <<>> /\ agenda[1].do = "try" /\ u \in Triggers
  BY FirstIsSound DEF TryTrigger, Step, Sound
<1>2. fired.do = "fired" /\ fired.trigger = u /\ Sound(fired)
  BY DEF Sound
<1>3. CASE Does(NoRecords, {}, <<>>)
  <2>1. ~Concerns(agenda[1], t)
    BY <1>1 DEF Concerns, Writes
  <2> QED BY <1>1, <1>3, <2>1, NothingWritten, ForeignStep DEF Does
<1>4. ASSUME NEW done, NEW failed, Attempt(DeedsOf[u] \o <<fired>>, done, failed)
      PROVE  TriggerInv(t)'
  <2> HIDE DEF fired
  <2>1. DeedsOf[u] \in Seq(Deed)
    BY <1>1, ContentAssumption
  <2>2. CASE u # t
    <3>1. \A j \in 1 .. Len(DeedsOf[u]) : ~Concerns(DeedsOf[u][j], t)
      <4>1. \A deed \in Deed : deed.do # "fired"
        BY DEF Deed
      <4> QED BY <1>1, <2>1, <2>2, <4>1, OnlyItsDeeds DEF Concerns
    <3>2. Foreign(DeedsOf[u], t)
      BY <2>1, <3>1, DeedsArePlain DEF Foreign, AllPlain
    <3>3. ~Concerns(fired, t)
      BY <1>2, <2>2 DEF Concerns, Writes
    <3>4. Foreign(DeedsOf[u] \o <<fired>>, t)
      BY <1>2, <3>2, <3>3, OneForeign, JoinedForeign
    <3> QED BY <1>1, <1>4, <3>4, AttemptStep
  <2>3. CASE u = t
    <3>1. IsList(DeedsOf[u] \o <<fired>>)
      BY <1>2, <2>1, DeedsArePlain, SingleIs, JoinedIs DEF AllPlain
    <3>2. /\ Top' > 1 /\ \A i \in 1 .. Top' : Whole(t, copies'[i].now.state)
          /\ \E keep, rest : /\ keep.do = "keep" /\ Foreign(<<keep>>, t) /\ Foreign(rest, t)
                             /\ agenda' = DeedsOf[t] \o <<fired>> \o <<keep>> \o rest
      BY <1>1, <1>4, <2>3, <3>1, AttemptIs
    <3>3. Running(agenda', state', t)
      BY <1>2, <2>3, <3>2, AttemptRuns
    <3> QED BY <3>2, <3>3 DEF TriggerInv
  <2> QED BY <2>2, <2>3
<1> QED BY <1>3, <1>4 DEF TryTrigger

\* A step that neither is a trigger's nor writes what it may.
LEMMA OtherStep ==
    ASSUME OwnDeeds, NEW t \in Once, TxRemembers, FloorInv, TriggerInv(t), NEW name, Step(name),
           name \notin {"set", "flip", "fired"}, NEW written, NEW signals, NEW reported,
           Does(written, signals, reported), \A k \in KeysOf(t) : k \notin DOMAIN written
    PROVE  TriggerInv(t)'
<1>1. agenda # <<>> /\ ~Concerns(agenda[1], t)
  BY DEF Step, Concerns, Writes
<1>2. Work(written, scalars, signals, reported) /\ agenda' = Rest
  BY DEF Does
<1> QED BY <1>1, <1>2, ForeignStep

LEMMA OnlyStep ==
    ASSUME OwnDeeds, NEW t \in Once, TxRemembers, FloorInv, TriggerInv(t), NEW name, Step(name),
           name \notin {"set", "flip", "fired"}, NEW k, NEW value, NEW signals, NEW reported,
           Does(Only(k, value), signals, reported), k \notin KeysOf(t)
    PROVE  TriggerInv(t)'
<1>1. DOMAIN Only(k, value) = {k}
  BY OnlyIs
<1> QED BY <1>1, OtherStep

LEMMA NothingStep ==
    ASSUME OwnDeeds, NEW t \in Once, TxRemembers, FloorInv, TriggerInv(t), NEW name, Step(name),
           name \notin {"set", "flip", "fired"}, NEW signals, NEW reported,
           Does(NoRecords, signals, reported)
    PROVE  TriggerInv(t)'
BY OtherStep, NothingWritten

LEMMA ContentSteps ==
    ASSUME OwnDeeds, NEW t \in Once, TxRemembers, FloorInv, TriggerInv(t),
           TakeTurns \/ Announce \/ RequestMove \/ QueueStart \/ BeginTalk \/ PresentLine
             \/ InterruptTalk \/ ReportEvent
    PROVE  TriggerInv(t)'
<1>0. /\ Floor \notin KeysOf(t) /\ Pending \notin KeysOf(t)
      /\ \A x : Talk(x) \notin KeysOf(t) /\ Movement(x) \notin KeysOf(t)
  BY TriggerKeys
<1>1. CASE TakeTurns
  <2>1. PICK queues : Step("turns") /\ \/ Does(NoRecords, {}, <<>>)
                                       \/ Does(Only(Floor, queues), {}, <<>>)
    BY <1>1 DEF TakeTurns
  <2> QED BY <1>0, <2>1, OnlyStep, NothingStep
<1>2. CASE Announce
  <2>1. PICK work : Step("announce") /\ \/ Does(NoRecords, {}, <<>>)
                                        \/ Does(Only(Pending, work), {}, <<>>)
    BY <1>2 DEF Announce
  <2> QED BY <1>0, <2>1, OnlyStep, NothingStep
<1>3. CASE RequestMove
  BY <1>0, <1>3, OnlyStep, NothingStep DEF RequestMove
<1>4. CASE QueueStart
  BY <1>0, <1>4, OnlyStep DEF QueueStart
<1>5. CASE BeginTalk
  BY <1>0, <1>5, OnlyStep DEF BeginTalk
<1>6. CASE PresentLine
  BY <1>0, <1>6, OnlyStep DEF PresentLine
<1>7. CASE InterruptTalk
  BY <1>0, <1>7, OnlyStep DEF InterruptTalk
<1>8. CASE ReportEvent
  BY <1>8, NothingStep DEF ReportEvent
<1> QED BY <1>1, <1>2, <1>3, <1>4, <1>5, <1>6, <1>7, <1>8

LEMMA ReportSteps ==
    ASSUME OwnDeeds, NEW t \in Once, TxRemembers, FloorInv, TriggerInv(t),
           ObserveAreas \/ FailMove \/ AdvanceTime \/ PopWork \/ ForgetMove
    PROVE  TriggerInv(t)'
<1>0. /\ Pending \notin KeysOf(t)
      /\ \A x : Movement(x) \notin KeysOf(t) /\ Location(x) \notin KeysOf(t)
  BY TriggerKeys
<1>1. CASE ObserveAreas
  <2> DEFINE a == agenda[1].actor
             walk == state[Movement(a)]
             arrived == walk # None /\ walk.to \in agenda[1].areas
             touched == {Location(a)} \cup IF arrived THEN {Movement(a)} ELSE {}
             written == [k \in touched |-> IF k = Location(a) THEN agenda[1].areas ELSE None]
  <2>1. Step("observe") /\ \E signals, reported : Does(written, signals, reported)
    BY <1>1 DEF ObserveAreas
  <2>2. DOMAIN written \subseteq {Location(a), Movement(a)}
    OBVIOUS
  <2> HIDE DEF written
  <2>3. \A k \in KeysOf(t) : k \notin DOMAIN written
    BY <1>0, <2>2
  <2> QED BY <2>1, <2>3, OtherStep
<1>2. CASE FailMove
  BY <1>0, <1>2, OnlyStep DEF FailMove
<1>3. CASE AdvanceTime
  <2>1. PICK clock : Work(NoRecords, clock, {}, <<>>)
    BY <1>3 DEF AdvanceTime
  <2>2. agenda # <<>> /\ ~Concerns(agenda[1], t) /\ agenda' = Rest
    BY <1>3 DEF AdvanceTime, Step, Concerns, Writes
  <2> QED BY <2>1, <2>2, NothingWritten, ForeignStep
<1>4. CASE PopWork
  BY <1>0, <1>4, OnlyStep DEF PopWork
<1>5. CASE ForgetMove
  BY <1>0, <1>5, OnlyStep DEF ForgetMove
<1> QED BY <1>1, <1>2, <1>3, <1>4, <1>5

LEMMA OneStep ==
    ASSUME NEW t, TxRemembers, TriggerInv(t), NEW what, NEW step, Transact(what, <<step>>),
           step.do \notin {"keep", "turns", "announce", "try", "present", "set", "flip", "fired"}
    PROVE  TriggerInv(t)'
<1>1. Foreign(<<step>>, t)
  BY OneForeign DEF Sound, Concerns, Writes
<1> QED BY <1>1, TransactStep

LEMMA CommandSteps ==
    ASSUME OwnDeeds, NEW t \in Once, TxRemembers, FloorInv, TriggerInv(t), Commands
    PROVE  TriggerInv(t)'
<1>1. ASSUME NEW step, Command(<<step>>),
             step.do \notin {"keep", "turns", "announce", "try", "present", "set", "flip", "fired"}
      PROVE  TriggerInv(t)'
  BY <1>1, OneStep DEF Command
<1>2. ASSUME NEW c \in Conversations, AdvanceLine(c)
      PROVE  TriggerInv(t)'
  <2> DEFINE line == state[Talk(c)].line
             step == [do |-> "present", conversation |-> c, line |-> line]
             deeds == LinesOf[c][line]
  <2>1. Active(c) /\ Command(deeds \o <<step>>)
    BY <1>2 DEF AdvanceLine
  <2>2. line \in DOMAIN LinesOf[c] /\ LinesOf[c] \in Seq(Seq(Deed))
    BY <2>1, ContentAssumption DEF Active, FloorInv, TalksHold, AtALine
  <2> HIDE DEF line
  <2>3. line \in Nat \ {0} /\ deeds \in Seq(Deed)
    BY <2>2
  <2>4. \A j \in DOMAIN deeds : ~Concerns(deeds[j], t)
    <3>1. \A deed \in Deed : deed.do # "fired"
      BY DEF Deed
    <3>2. \A j \in DOMAIN deeds : deeds[j] \in Deed
      BY <2>3
    <3>3. \A j \in DOMAIN deeds : \A i \in SetsAt(t) : ~Writes(deeds[j], DeedsOf[t][i].variable)
      BY <2>2 DEF OwnDeeds, SetsAt
    <3> QED BY <3>1, <3>2, <3>3 DEF Concerns
  <2>5. Foreign(deeds, t)
    <3>1. AllPlain(deeds) /\ DOMAIN deeds = 1 .. Len(deeds)
      BY <2>3, DeedsArePlain
    <3> HIDE DEF deeds
    <3> QED BY <2>4, <3>1 DEF Foreign, AllPlain
  <2>6. Foreign(<<step>>, t)
    <3>1. Sound(step) /\ ~Concerns(step, t)
      BY <2>3 DEF Sound, Concerns, Writes
    <3> HIDE DEF step
    <3> QED BY <3>1, OneForeign
  <2>7. Foreign(deeds \o <<step>>, t)
    <3> HIDE DEF deeds, step
    <3> QED BY <2>5, <2>6, JoinedForeign
  <2> HIDE DEF deeds, step
  <2> QED BY <2>1, <2>7, TransactStep DEF Command
<1>3. ASSUME NEW c \in Conversations, StartDialogue(c) \/ InterruptDialogue(c)
      PROVE  TriggerInv(t)'
  BY <1>1, <1>3 DEF StartDialogue, InterruptDialogue
<1>4. ASSUME NEW a \in Actors, MoveFailed(a) \/ \E areas \in SUBSET Areas : Observe(a, areas)
      PROVE  TriggerInv(t)'
  BY <1>1, <1>4 DEF MoveFailed, Observe
<1>5. CASE PassTime
  BY <1>1, <1>5 DEF PassTime
<1> QED BY <1>2, <1>3, <1>4, <1>5 DEF Commands

LEMMA QueuedWorkSteps ==
    ASSUME OwnDeeds, NEW t \in Once, TxRemembers, FloorInv, TriggerInv(t),
           ProcessNext \/ DropNext \/ Settled \/ StartTalk
    PROVE  TriggerInv(t)'
<1>1. CASE ProcessNext
  <2> DEFINE pop == [do |-> "pop"]
             steps == StepsOf(Head(state[Pending]))
  <2>1. \/ \E a : Transact("work", << [do |-> "fail", actor |-> a] >>)
        \/ Transact("work", <<pop>> \o steps)
    BY <1>1 DEF ProcessNext
  <2>2. Foreign(<<pop>>, t)
    <3>1. Sound(pop) /\ ~Concerns(pop, t)
      BY DEF Sound, Concerns, Writes
    <3> HIDE DEF pop
    <3> QED BY <3>1, OneForeign
  <2> HIDE DEF pop
  <2>3. Foreign(steps, t)
    <3>1. AllPlain(steps) /\ \A k \in 1 .. Len(steps) : steps[k].do \in {"start", "try"}
      BY WorkIsPlain
    <3> HIDE DEF steps
    <3>2. \A k \in 1 .. Len(steps) : ~Concerns(steps[k], t)
      BY <3>1 DEF Concerns, Writes
    <3> QED BY <3>1, <3>2 DEF Foreign, AllPlain
  <2> HIDE DEF steps
  <2>4. Foreign(<<pop>> \o steps, t)
    BY <2>2, <2>3, JoinedForeign
  <2> QED BY <2>1, <2>4, TransactStep, OneStep
<1>2. CASE DropNext
  <2>1. PICK step :
          /\ Transact("drop", <<step>>)
          /\ step.do \notin {"keep", "turns", "announce", "try", "present", "set", "flip", "fired"}
    BY <1>2 DEF DropNext
  <2> QED BY <2>1, OneStep
<1>3. CASE Settled
  BY <1>3 DEF Settled, txVars, TriggerInv, Top
<1>4. CASE StartTalk
  <2> DEFINE begin == [do |-> "begin", conversation |-> agenda[1].conversation]
  <2>1. Step("start") /\ \/ \E done, failed : Attempt(<<begin>>, done, failed)
                         \/ \E reported : Does(NoRecords, {}, reported)
    BY <1>4 DEF StartTalk
  <2>2. Open /\ agenda # <<>> /\ agenda[1].do = "start"
    BY <2>1 DEF Step
  <2>3. Sound(begin) /\ ~Concerns(begin, t)
    BY DEF Sound, Concerns, Writes
  <2> HIDE DEF begin
  <2>4. Foreign(<<begin>>, t)
    BY <2>3, OneForeign
  <2> QED BY <2>1, <2>2, <2>4, AttemptStep, NothingStep
<1> QED BY <1>1, <1>2, <1>3, <1>4

LEMMA SessionKeepsTriggers ==
    ASSUME TxRemembers, FloorInv, TriggersInv, SessionNext
    PROVE  TriggersInv'
<1> SUFFICES ASSUME OwnDeeds, NEW t \in Once, TriggerInv(t) PROVE TriggerInv(t)'
  BY DEF TriggersInv
<1> QED
  BY CommandSteps, ContentSteps, ReportSteps, QueuedWorkSteps, SetStep, FlipStep, FiredStep, TryStep,
     CommitStep, KeepAttemptStep, UndoAttemptStep, RollBackStep
     DEF SessionNext, SessionWork

\* What a playthrough that is resumed has to say of the triggers.
TriggersHold(records) == OwnDeeds => \A t \in Once : Whole(t, records)

LEMMA ResumeKeepsTriggers ==
    ASSUME NEW records, NEW clock, TakeOver(records, clock), TriggersHold(records)
    PROVE  TriggersInv'
<1>1. state' = records /\ agenda' = <<>> /\ scopes' = <<>>
  BY DEF TakeOver, Resume
<1>2. Top' = 0
  BY <1>1 DEF Top
<1> QED BY <1>1, <1>2, NothingForeign DEF TriggersInv, TriggerInv, TriggersHold

LEMMA NewStateHoldsTriggers == TriggersHold(NewState)
<1> SUFFICES ASSUME OwnDeeds, NEW t \in Once, Sets(t)
             PROVE  NewState[Fired(t)] = FALSE /\ ~Done(t, NewState)
  BY DEF TriggersHold, Whole
<1>1. PICK i \in DOMAIN DeedsOf[t] : DeedsOf[t][i].do = "set" /\ DeedsOf[t][i].value # 0
  BY DEF OwnDeeds
<1>2. i \in SetsAt(t)
  BY <1>1 DEF SetsAt
<1> DEFINE v == DeedsOf[t][i].variable
<1>3. t \in Triggers /\ Fired(t) \in Records /\ Variable(v) \in Records /\ v \in Variables
  <2>1. DeedsOf[t][i] \in Deed /\ KeysOf(t) \subseteq Records /\ t \in Triggers
    BY TriggerKeys
  <2>2. \A deed \in Deed : deed.do = "set" => deed.variable \in Variables
    BY DEF Deed
  <2> QED BY <1>1, <1>2, <2>1, <2>2 DEF KeysOf
<1>4. /\ Fired(t) \notin {Pending, Floor} /\ Variable(v) \notin {Pending, Floor}
      /\ Fired(t) \notin {Location(a) : a \in Actors} /\ Variable(v) \notin {Location(a) : a \in Actors}
      /\ Fired(t) \notin {Variable(x) : x \in Variables}
      /\ Variable(v) \notin {Fired(u) : u \in Triggers}
  BY DEF Fired, Pending, Floor, Variable, Location
<1>5. NewState[Fired(t)] = FALSE
  BY <1>3, <1>4 DEF NewState
<1>6. NewState[Variable(v)] = 0
  <2> HIDE DEF v
  <2>1. PICK k \in Records : k = Variable(v)
    BY <1>3
  <2>2. /\ k \in {Variable(x) : x \in Variables} /\ k \notin {Pending, Floor}
        /\ k \notin {Location(a) : a \in Actors} /\ k \notin {Fired(u) : u \in Triggers}
    BY <1>3, <1>4, <2>1
  <2> QED BY <2>1, <2>2 DEF NewState
<1> QED BY <1>1, <1>5, <1>6 DEF Done

-----------------------------------------------------------------------------
(* The saves a playthrough may be resumed from.                            *)

NoGame == {Empty, Unusable}

\* A state a playthrough may have between transactions.
Playable(records) ==
    IsState(records) /\ FloorHolds(records) /\ TalksHold(records) /\ TriggersHold(records)

HoldsState(save) == Playable(save.content.state)

StagedHoldsState ==
    staged # Empty =>
        /\ staged = [slot |-> staged.slot, next |-> staged.next, save |-> staged.save]
        /\ staged.save = [sequence |-> staged.save.sequence, synced |-> staged.save.synced,
                          content |-> staged.save.content]
        /\ HoldsState(staged.save)

SavesHoldStates ==
    /\ files = [s \in Slots |-> files[s]]
    /\ disk = [s \in Slots |-> disk[s]]
    /\ \A s \in Slots : files[s] \in NoGame \/ HoldsState(files[s])
    /\ \A s \in Slots : \A save \in disk[s] : save \in NoGame \/ HoldsState(save)
    /\ StagedHoldsState

StoryInv == TxRemembers /\ FloorInv /\ TriggersInv /\ SavesHoldStates

\* What a save or a stop leaves in the slots can be resumed from.
LEMMA SavingKeepsSaves ==
    ASSUME SavesHoldStates, Playable(state), Quicksave(Now) \/ SaveSteps
    PROVE  SavesHoldStates'
<1>1. CASE Quicksave(Now)
  BY <1>1 DEF Quicksave, SaveInto, SavesHoldStates, StagedHoldsState, HoldsState, Now
<1>2. CASE SyncStage
  BY <1>2 DEF SyncStage, At, SavesHoldStates, StagedHoldsState, HoldsState
<1>3. CASE RenameStage
  <2>1. \A s \in Slots : files'[s] = files[s] \/ files'[s] = staged.save
    BY <1>3 DEF RenameStage, SavesHoldStates
  <2>2. \A s \in Slots : \A save \in disk'[s] : save \in disk[s] \/ save = staged.save
    <3>1. disk' = [disk EXCEPT ![staged.slot] = @ \cup {staged.save}]
      BY <1>3 DEF RenameStage
    <3>2. \A s \in Slots : disk'[s] = disk[s] \/ disk'[s] = disk[s] \cup {staged.save}
      BY <3>1 DEF SavesHoldStates
    <3> QED
      BY <3>2
  <2>3. files' = [s \in Slots |-> files'[s]] /\ disk' = [s \in Slots |-> disk'[s]]
    BY <1>3 DEF RenameStage, SavesHoldStates
  <2>4. HoldsState(staged.save)
    BY <1>3 DEF RenameStage, At, SavesHoldStates, StagedHoldsState
  <2>5. (\A s \in Slots : files[s] \in NoGame \/ HoldsState(files[s]))'
    BY <2>1, <2>4 DEF SavesHoldStates, HoldsState, NoGame
  <2>6. (\A s \in Slots : \A save \in disk[s] : save \in NoGame \/ HoldsState(save))'
    BY <2>2, <2>4 DEF SavesHoldStates, HoldsState, NoGame
  <2>7. StagedHoldsState'
    <3>1. staged # Empty /\ staged' = [staged EXCEPT !.next = "sync directory"]
      BY <1>3 DEF RenameStage, At
    <3>2. staged' = [slot |-> staged.slot, next |-> "sync directory", save |-> staged.save]
      BY <3>1 DEF SavesHoldStates, StagedHoldsState
    <3>3. staged'.save = staged.save
      BY <3>2
    <3>4. staged' = [slot |-> staged'.slot, next |-> staged'.next, save |-> staged'.save]
      BY <3>2
    <3> QED
      BY <3>1, <3>3, <3>4 DEF SavesHoldStates, StagedHoldsState, HoldsState
  <2> QED
    BY <2>3, <2>5, <2>6, <2>7 DEF SavesHoldStates
<1>4. CASE SyncDirectory
  <2>1. files' = files /\ disk' = [s \in Slots |-> {files[s]}] /\ staged' = Empty
    BY <1>4 DEF SyncDirectory
  <2>2. (\A s \in Slots : files[s] \in NoGame \/ HoldsState(files[s]))'
    BY <2>1 DEF SavesHoldStates, HoldsState, NoGame
  <2>3. (\A s \in Slots : \A save \in disk[s] : save \in NoGame \/ HoldsState(save))'
    BY <2>1 DEF SavesHoldStates, HoldsState, NoGame
  <2>4. files' = [s \in Slots |-> files'[s]] /\ disk' = [s \in Slots |-> disk'[s]]
    BY <2>1 DEF SavesHoldStates
  <2>5. StagedHoldsState'
    BY <2>1 DEF StagedHoldsState
  <2> QED
    BY <2>2, <2>3, <2>4, <2>5 DEF SavesHoldStates
<1>5. CASE SaveFails
  BY <1>5 DEF SaveFails, SavesHoldStates, StagedHoldsState, HoldsState
<1> QED
  BY <1>1, <1>2, <1>3, <1>4, <1>5 DEF SaveSteps

LEMMA StopKeepsSaves ==
    ASSUME SavesHoldStates, Stop
    PROVE  SavesHoldStates'
<1>1. PICK left \in [Slots -> UNION {AfterStop(s) : s \in Slots}] :
        /\ \A s \in Slots : left[s] \in AfterStop(s)
        /\ files' = left /\ disk' = [s \in Slots |-> {left[s]}]
  BY DEF Stop
<1>2. \A s \in Slots : left[s] \in NoGame \/ HoldsState(left[s])
  BY <1>1 DEF AfterStop, SavesHoldStates, NoGame
<1>3. (\A s \in Slots : files[s] \in NoGame \/ HoldsState(files[s]))'
  BY <1>1, <1>2 DEF HoldsState, NoGame
<1>4. (\A s \in Slots : \A save \in disk[s] : save \in NoGame \/ HoldsState(save))'
  BY <1>1, <1>2 DEF HoldsState, NoGame
<1>5. files' = [s \in Slots |-> files'[s]] /\ disk' = [s \in Slots |-> disk'[s]]
  BY <1>1
<1>6. StagedHoldsState'
  BY DEF Stop, StagedHoldsState
<1> QED
  BY <1>3, <1>4, <1>5, <1>6 DEF SavesHoldStates

\* Between commands a playthrough is one that may be saved.
LEMMA NowIsPlayable ==
    ASSUME StoryInv, doing = "nothing"
    PROVE  Playable(state)
<1>1. ~Open
  BY DEF StoryInv, FloorInv
<1>2. ~(Top > 1)
  BY <1>1, OpenIs DEF StoryInv
<1>3. TriggersHold(state)
  BY <1>2 DEF StoryInv, TriggersInv, TriggerInv, TriggersHold
<1> QED BY <1>1, <1>3, StateIsState DEF StoryInv, FloorInv, Playable

LEMMA FloorStays ==
    ASSUME FloorInv, UNCHANGED <<txVars, sessionVars>>
    PROVE  FloorInv'
BY DEF txVars, sessionVars, FloorInv, Open, Top, Ahead, Behind

LEMMA TriggersStay ==
    ASSUME TriggersInv, UNCHANGED <<txVars, sessionVars>>
    PROVE  TriggersInv'
BY DEF txVars, sessionVars, TriggersInv, TriggerInv, Top

LEMMA StoryStep ==
    ASSUME StoryInv, [StoryNext]_storyVars
    PROVE  StoryInv' /\ [Scopes!ScopesNext]_(Scopes!scopesVars)
<1>1. TxRemembers /\ FloorInv /\ TriggersInv /\ SavesHoldStates
  BY DEF StoryInv
<1>2. UNCHANGED savesVars => SavesHoldStates'
  BY <1>1 DEF SavesHoldStates, StagedHoldsState, HoldsState, savesVars
<1>3. AnyStep /\ FloorInv' /\ TriggersInv' /\ SavesHoldStates'
  <2>1. CASE Play
    <3>1. SessionNext /\ UNCHANGED savesVars
      BY <2>1 DEF Play
    <3> QED
      BY <1>1, <1>2, <3>1, CommandsAreSteps, SessionWorkIsAStep, SessionKeepsFloor,
         SessionKeepsTriggers
         DEF SessionNext
  <2>2. CASE Saving
    <3>1. Playable(state)
      BY <2>2, NowIsPlayable DEF Saving
    <3>2. (Quicksave(Now) \/ SaveSteps) /\ UNCHANGED <<txVars, sessionVars>>
      BY <2>2 DEF Saving
    <3> QED
      BY <1>1, <3>1, <3>2, SavingKeepsSaves, FloorStays, TriggersStay DEF AnyStep
  <2>3. CASE Quickload
    <3>1. Playable(files[QuickSlot].content.state)
      BY <1>1, <2>3 DEF Quickload, Usable, SavesHoldStates, NoGame, HoldsState, Slots, Kinds,
         SlotsOf
    <3>2. /\ TakeOver(files[QuickSlot].content.state, files[QuickSlot].content.scalars)
          /\ UNCHANGED savesVars
      BY <2>3 DEF Quickload
    <3>3. FloorInv' /\ TriggersInv'
      BY <3>1, <3>2, ResumeKeepsFloor, ResumeKeepsTriggers DEF Playable
    <3>4. AnyStep
      BY <3>1, <3>2 DEF TakeOver, AnyStep, Playable
    <3> QED
      BY <1>2, <3>2, <3>3, <3>4
  <2>4. CASE StopGame
    <3>1. Stop /\ TakeOver(NewState, 0)
      BY <2>4 DEF StopGame
    <3>2. AnyStep
      BY <3>1, NewStateIsState DEF TakeOver, AnyStep
    <3> QED
      BY <1>1, <3>1, <3>2, StopKeepsSaves, NewStateHolds, ResumeKeepsFloor, NewStateHoldsTriggers,
         ResumeKeepsTriggers
  <2>5. CASE UNCHANGED storyVars
    BY <1>1, <1>2, <2>5, FloorStays, TriggersStay DEF storyVars, AnyStep
  <2> QED
    BY <2>1, <2>2, <2>3, <2>4, <2>5 DEF StoryNext
<1> QED
  BY <1>1, <1>3, AnyStepRemembers DEF StoryInv

LEMMA StoryInitHolds ==
    ASSUME StoryInit
    PROVE  StoryInv /\ Scopes!ScopesInit
<1> DEFINE T == [records |-> {}, values |-> {NewState[k] : k \in Records}, scalars |-> {0},
                 signals |-> {}, events |-> {}]
<1>1. state \in States(T) /\ scalars \in T.scalars
  BY NewStateIsState DEF StoryInit, SessionInit, States, IsState
<1>2. TxInv(T) /\ Scopes!ScopesInit
  <2> HIDE DEF T
  <2> QED
    BY <1>1, TxInitHolds DEF StoryInit, SessionInit
<1>3. SavesHoldStates
  BY DEF StoryInit, SavesInit, SavesHoldStates, StagedHoldsState, NoGame
<1>4. FloorInv
  <2>1. ~Open /\ Top = 0 /\ state = NewState /\ agenda = <<>>
    BY DEF StoryInit, SessionInit, Open, Top
  <2> QED
    BY <2>1, NothingLeft, NewStateHolds DEF FloorInv
<1>5. TriggersInv
  <2>1. Top = 0 /\ state = NewState /\ agenda = <<>>
    BY DEF StoryInit, SessionInit, Top
  <2> QED
    BY <2>1, NothingForeign, NewStateHoldsTriggers DEF TriggersInv, TriggerInv, TriggersHold
<1> QED
  BY <1>2, <1>3, <1>4, <1>5 DEF StoryInv, TxRemembers

\* Whatever content does, refuses and undoes, and whatever is saved, loaded or
\* cut off: the transaction remembers what each of its scopes would put back,
\* the floor is as it was until turns are taken, a trigger that fires once is
\* whole except within its own attempt, and a save holds a playthrough of which
\* the same is true.
THEOREM StoryRemembers == StorySpec => []StoryInv
<1>1. StoryInit => StoryInv
  BY StoryInitHolds
<1>2. StoryInv /\ [StoryNext]_storyVars => StoryInv'
  BY StoryStep
<1> QED
  BY <1>1, <1>2, PTL DEF StorySpec

\* In a whole game a rolled back command, piece of work or attempt leaves
\* nothing behind, and a kept one everything (tx.rs, session.rs).
THEOREM StoryIsASnapshot == StorySpec => ScopesAreSnapshots
<1>1. StoryInit => Scopes!ScopesInit
  BY StoryInitHolds
<1>2. StoryInv /\ [StoryNext]_storyVars => [Scopes!ScopesNext]_(Scopes!scopesVars)
  BY StoryStep
<1> QED
  BY <1>1, <1>2, StoryRemembers, PTL DEF StorySpec, ScopesAreSnapshots, Scopes!ScopesSpec

\* Between transactions the floor holds just the conversations under way, each
\* once and in the queue of its kind (session.rs, take_turns), for any content,
\* whatever was undone, saved, loaded or cut off.
THEOREM FloorFollows == StorySpec => []FloorIsTheActive
<1>1. StoryInv => FloorIsTheActive
  <2> SUFFICES ASSUME StoryInv, ~Open, NEW m \in Modes
               PROVE  /\ IsInjective(state[Floor][m])
                      /\ ToSet(state[Floor][m])
                           = {c \in Conversations : ModeOf[c] = m /\ Active(c)}
    BY DEF FloorIsTheActive
  <2>1. FloorHolds(state)
    BY DEF StoryInv, FloorInv
  <2>2. \A c \in Conversations : UnderWay(state, c) <=> Active(c)
    BY DEF UnderWay, Active
  <2> QED
    BY <2>1, <2>2 DEF FloorHolds
<1> QED
  BY <1>1, StoryRemembers, PTL

\* When nothing else writes what the triggers that fire once set, such a
\* trigger has taken effect just when it counts as fired: no refused deed,
\* rejected command, load or stop leaves it half done, or done and able to fire
\* again (world_runtime.rs, run_trigger; tx.rs, attempt).
THEOREM TriggersFireWhole == OwnDeeds => (StorySpec => []TriggersAreWhole)
<1>1. ASSUME OwnDeeds PROVE StoryInv => TriggersAreWhole
  <2> SUFFICES ASSUME StoryInv, Top <= 1, NEW t \in Once, Sets(t)
               PROVE  state[Fired(t)] = Done(t, state)
    BY DEF TriggersAreWhole, Top
  <2>1. TriggerInv(t)
    BY <1>1 DEF StoryInv, TriggersInv
  <2>2. ~(Top > 1)
    BY OpenIs DEF StoryInv
  <2>3. Whole(t, state)
    BY <2>1, <2>2 DEF TriggerInv
  <2>4. CASE state[Fired(t)] = TRUE /\ Done(t, state)
    BY <2>4
  <2>5. CASE state[Fired(t)] = FALSE /\ ~Done(t, state)
    <3>1. Done(t, state) \in BOOLEAN
      BY Zenon DEF Done
    <3> QED BY <2>5, <3>1
  <2> QED
    BY <2>3, <2>4, <2>5 DEF Whole
<1>2. ASSUME OwnDeeds PROVE StorySpec => []TriggersAreWhole
  BY <1>1, <1>2, StoryRemembers, PTL
<1> QED
  BY <1>2

=============
