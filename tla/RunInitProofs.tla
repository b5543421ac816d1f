---------------------------- MODULE RunInitProofs ----------------------------
(***************************************************************************)
(* RunInit keeps a root owned and publishes it as RunPublication says, for *)
(* any number of initializers, configurations and files.                   *)
(***************************************************************************)
EXTENDS RunInitProps, TLAPS

TookBack == \E p \in Initializers : pc[p] = "tookBack"

\* What is in the final root is of the staging root whose identity is there,
\* and the marker is never there before everything else.
OneOrigin ==
    /\ \A e \in Entries : final[e] # None => final[e] = final[Identity] /\ rootExists
    /\ Completed => Consistent

\* What each initializer has behind it.
Progressed ==
    \A p \in Initializers :
        /\ replay[p] => Completed
        /\ pc[p] = "compare" => replay[p]
        /\ pc[p] \in {"own", "mkdir", "link", "validate"} => ~replay[p]
        /\ pc[p] \in {"own", "mkdir", "link", "validate", "sweep", "remove"} =>
             mine[p] # None
        /\ pc[p] \in {"own", "mkdir", "link", "validate", "sweep", "remove"} /\ ~replay[p] =>
             config[mine[p]] = config[p]
        /\ pc[p] \in {"own", "mkdir"} => at[p] = 0
        /\ pc[p] = "link" =>
             /\ at[p] \in Entries
             /\ rootExists
             /\ \A e \in Entries : e < at[p] => final[e] = mine[p]
        /\ pc[p] \in {"validate", "sweep", "remove"} => Completed
        /\ pc[p] \in {"validate", "sweep", "remove"} /\ ~replay[p] =>
             final[Marker] = mine[p]
        /\ pc[p] \in {"start", "lookup", "vacant", "claim", "check"} => at[p] = 0

\* A claimant has its reservation until it goes on or takes it back, and
\* who publishes does so under the reservation, unless somebody took it back.
Reserved ==
    /\ \A p \in Initializers :
         /\ pc[p] \in {"check", "retract"} => reservation = p
         /\ pc[p] \in {"own", "mkdir", "link"} => (TookBack \/ reservation = mine[p])
    /\ rootExists =>
         \/ TookBack
         \/ /\ reservation # None
            /\ \A e \in Entries : final[e] \in {None, reservation}

\* Nothing is removed before the marker is there.
StagedWhole ==
    ~Completed =>
        /\ \A p \in Initializers : pc[p] = "claim" => staged[p] = Entries
        /\ reservation # None => staged[reservation] = Entries

IInv == TypeOK /\ OneOrigin /\ Progressed /\ Reserved /\ StagedWhole

\* The invariant holds at first.
LEMMA InitIInv == Init => IInv
<1> SUFFICES ASSUME Init PROVE IInv
  OBVIOUS
<1> USE RunInitAssumption DEF Init, Entries, Identity, Marker
<1>1. TypeOK
  <2>1. pc \in [Initializers -> Steps]
    BY DEF Steps
  <2>2. /\ at \in [Initializers -> 0 .. ObjectCount + 2]
        /\ final \in [Entries -> Initializers \cup {None}]
    OBVIOUS
  <2>3. /\ left \in [Initializers -> SUBSET Entries]
        /\ staged \in [Initializers -> SUBSET Entries]
    OBVIOUS
  <2>4. QED
    BY <2>1, <2>2, <2>3 DEF TypeOK
<1>2. ~Completed /\ \A e \in Entries : final[e] = None
  BY DEF Completed
<1>3. OneOrigin
  BY <1>2 DEF OneOrigin
<1>4. Progressed
  BY <1>2 DEF Progressed
<1>5. Reserved /\ StagedWhole
  BY <1>2 DEF Reserved, StagedWhole
<1>6. QED
  BY <1>1, <1>3, <1>4, <1>5 DEF IInv

-----------------------------------------------------------------------------
\* Every step keeps every variable in its range.
LEMMA TypeKept == TypeOK /\ Progressed /\ [Next]_vars => TypeOK'
<1> SUFFICES ASSUME TypeOK, Progressed, [Next]_vars PROVE TypeOK'
  OBVIOUS
<1> USE RunInitAssumption DEF TypeOK, Steps, Ended, Entries, Identity, Marker, Objects, Completed
<1>1. ASSUME NEW p \in Initializers, Step(p), UNCHANGED config PROVE TypeOK'
  <2>1. CASE Start(p)
    BY <1>1, <2>1 DEF Start, Goes, Refuse, diskVars, localVars, Valid, Consistent
  <2>2. CASE Lookup(p)
    BY <1>1, <2>2 DEF Lookup, Goes, Refuse, diskVars, localVars, Owns, Resumable
  <2>3. CASE Stage(p)
    <3>1. staged' \in [Initializers -> SUBSET Entries]
      BY <2>3 DEF Stage, Refuse, diskVars
    <3>2. QED
      BY <1>1, <2>3, <3>1 DEF Stage, Goes, Refuse, diskVars, localVars
  <2>4. CASE Claim(p)
    BY <1>1, <2>4 DEF Claim, Goes, Refuse, diskVars, localVars, Claimable
  <2>5. CASE CheckRoot(p)
    <3>1. mine' \in [Initializers -> Initializers \cup {None}]
      BY <2>5 DEF CheckRoot
    <3>2. QED
      BY <1>1, <2>5, <3>1 DEF CheckRoot, Goes, diskVars
  <2>6. CASE Retract(p)
    BY <1>1, <2>6 DEF Retract, Goes, Refuse, diskVars, localVars
  <2>7. CASE Own(p)
    BY <1>1, <2>7 DEF Own, Goes, Refuse, diskVars, localVars, Owns
  <2>8. CASE Mkdir(p)
    BY <1>1, <2>8 DEF Mkdir, Goes, Refuse, diskVars, localVars
  <2>9. CASE Link(p)
    <3>1. CASE Linkable(at[p], mine[p])
      <4>1. at[p] \in Entries /\ mine[p] \in Initializers \cup {None}
        BY <2>9 DEF Link, Progressed
      <4>2. final' \in [Entries -> Initializers \cup {None}]
        BY <2>9, <3>1, <4>1 DEF Link
      <4>3. at' \in [Initializers -> 0 .. ObjectCount + 2]
        BY <2>9, <3>1, <4>1 DEF Link
      <4>4. QED
        BY <1>1, <2>9, <3>1, <4>2, <4>3 DEF Link, Goes
    <3>2. CASE ~Linkable(at[p], mine[p])
      BY <1>1, <2>9, <3>2 DEF Link, Goes, Refuse, diskVars, localVars
    <3>3. QED
      BY <3>1, <3>2
  <2>10. CASE Validate(p)
    BY <1>1, <2>10 DEF Validate, Goes, Refuse, diskVars, localVars, Valid, Consistent
  <2>11. CASE Sweep(p)
    <3>1. left' \in [Initializers -> SUBSET Entries]
      BY <2>11 DEF Sweep, Refuse, localVars, Owns
    <3>2. QED
      BY <1>1, <2>11, <3>1 DEF Sweep, Goes, Refuse, diskVars, localVars
  <2>12. CASE Remove(p)
    <3>1. PICK e \in left[p] :
            IF e \in staged[mine[p]]
              THEN /\ staged' = [staged EXCEPT ![mine[p]] = @ \ {e}]
                   /\ left' = [left EXCEPT ![p] = @ \ {e}]
                   /\ UNCHANGED <<pc, mine, at, replay, reservation, rootExists,
                                  final, started>>
              ELSE Refuse(p)
      BY <2>12 DEF Remove
    <3>2. CASE e \in staged[mine[p]]
      <4> HIDE DEF Entries
      <4>1. staged' \in [Initializers -> SUBSET Entries]
        BY <3>1, <3>2
      <4>2. left' \in [Initializers -> SUBSET Entries]
        BY <3>1, <3>2
      <4>3. QED
        BY <1>1, <3>1, <3>2, <4>1, <4>2
    <3>3. CASE e \notin staged[mine[p]]
      BY <1>1, <3>1, <3>3 DEF Goes, Refuse, diskVars, localVars
    <3>4. QED
      BY <3>2, <3>3
  <2>13. CASE Removed(p)
    BY <1>1, <2>13 DEF Removed, Goes, Refuse, diskVars, localVars
  <2>14. CASE Compare(p)
    BY <1>1, <2>14 DEF Compare, Goes, Refuse, diskVars, localVars
  <2>15. CASE Crash(p)
    BY <1>1, <2>15 DEF Crash, Goes, Refuse, diskVars, localVars
  <2>16. QED
    BY <1>1, <2>1, <2>2, <2>3, <2>4, <2>5, <2>6, <2>7, <2>8, <2>9, <2>10, <2>11, <2>12, <2>13, <2>14, <2>15 DEF Step
<1>2. CASE StartActors /\ UNCHANGED config
  BY <1>2 DEF StartActors, localVars
<1>3. CASE Repair /\ UNCHANGED config
  BY <1>3 DEF Repair, localVars, Consistent
<1>4. CASE UNCHANGED vars
  BY <1>4 DEF vars
<1>5. QED
  BY <1>1, <1>2, <1>3, <1>4 DEF Next

\* A link adds to what its own staging root has put there.
LEMMA OriginKept == TypeOK /\ OneOrigin /\ Progressed /\ [Next]_vars => OneOrigin'
<1> SUFFICES ASSUME TypeOK /\ OneOrigin /\ Progressed, [Next]_vars PROVE OneOrigin'
  OBVIOUS
<1> USE RunInitAssumption DEF TypeOK, OneOrigin, Progressed, Completed, Consistent, Entries, Identity, Marker, Objects
<1>1. ASSUME NEW p \in Initializers, Step(p), UNCHANGED config PROVE OneOrigin'
  <2>1. CASE Start(p)
    BY <1>1, <2>1 DEF Start, Goes, Refuse, diskVars, localVars, Valid
  <2>2. CASE Lookup(p)
    BY <1>1, <2>2 DEF Lookup, Goes, Refuse, diskVars, localVars, Owns, Resumable
  <2>3. CASE Stage(p)
    BY <1>1, <2>3 DEF Stage, Goes, Refuse, diskVars, localVars
  <2>4. CASE Claim(p)
    BY <1>1, <2>4 DEF Claim, Goes, Refuse, diskVars, localVars, Claimable
  <2>5. CASE CheckRoot(p)
    BY <1>1, <2>5 DEF CheckRoot, Goes, Refuse, diskVars, localVars
  <2>6. CASE Retract(p)
    BY <1>1, <2>6 DEF Retract, Goes, Refuse, diskVars, localVars
  <2>7. CASE Own(p)
    BY <1>1, <2>7 DEF Own, Goes, Refuse, diskVars, localVars, Owns
  <2>8. CASE Mkdir(p)
    BY <1>1, <2>8 DEF Mkdir, Goes, Refuse, diskVars, localVars
  <2>9. CASE Link(p)
    <3>1. CASE Linkable(at[p], mine[p])
      <4> DEFINE k == at[p]
                 s == mine[p]
      <4>1. /\ k \in Entries /\ s \in Initializers /\ rootExists
            /\ \A e \in Entries : e < k => final[e] = s
            /\ final[k] \in {None, s}
        BY <2>9, <3>1 DEF Link, Linkable
      <4>2. /\ final' = [final EXCEPT ![k] = s]
            /\ rootExists' = rootExists
        BY <2>9, <3>1, <4>1 DEF Link
      <4>3. \A e \in Entries : final[e] # None => final[e] = s
        <5>1. CASE k = 0
          BY <4>1, <5>1
        <5>2. CASE k # 0
          BY <4>1, <5>2
        <5>3. QED
          BY <5>1, <5>2
      <4> HIDE DEF k, s
      <4>4. \A e \in Entries : final'[e] # None => final'[e] = s
        BY <4>1, <4>2, <4>3
      <4>5. final'[Identity] = s
        <5>1. k = 0 \/ 0 < k
          BY <4>1
        <5>2. QED
          BY <5>1, <4>1, <4>2
      <4>6. Completed' => Consistent'
        <5>1. CASE k = Marker
          BY <4>1, <4>2, <5>1
        <5>2. CASE k # Marker
          BY <4>1, <4>2, <4>3, <5>2
        <5>3. QED
          BY <5>1, <5>2
      <4>7. QED
        BY <4>1, <4>2, <4>4, <4>5, <4>6
    <3>2. CASE ~Linkable(at[p], mine[p])
      BY <1>1, <2>9, <3>2 DEF Link, Goes, Refuse, diskVars, localVars
    <3>3. QED
      BY <3>1, <3>2
  <2>10. CASE Validate(p)
    BY <1>1, <2>10 DEF Validate, Goes, Refuse, diskVars, localVars, Valid
  <2>11. CASE Sweep(p)
    BY <1>1, <2>11 DEF Sweep, Goes, Refuse, diskVars, localVars, Owns, Valid
  <2>12. CASE Remove(p)
    BY <1>1, <2>12 DEF Remove, Goes, Refuse, diskVars, localVars
  <2>13. CASE Removed(p)
    BY <1>1, <2>13 DEF Removed, Goes, Refuse, diskVars, localVars
  <2>14. CASE Compare(p)
    BY <1>1, <2>14 DEF Compare, Goes, Refuse, diskVars, localVars
  <2>15. CASE Crash(p)
    BY <1>1, <2>15 DEF Crash, Goes, Refuse, diskVars, localVars
  <2>16. QED
    BY <1>1, <2>1, <2>2, <2>3, <2>4, <2>5, <2>6, <2>7, <2>8, <2>9, <2>10, <2>11, <2>12, <2>13, <2>14, <2>15 DEF Step
<1>2. CASE StartActors /\ UNCHANGED config
  BY <1>2 DEF StartActors, localVars
<1>3. CASE Repair /\ UNCHANGED config
  BY <1>3 DEF Repair, localVars
<1>4. CASE UNCHANGED vars
  BY <1>4 DEF vars
<1>5. QED
  BY <1>1, <1>2, <1>3, <1>4 DEF Next

\* What an initializer has behind it stays, as nothing is ever replaced.
LEMMA ProgressKept == TypeOK /\ OneOrigin /\ Progressed /\ [Next]_vars => Progressed'
<1> SUFFICES ASSUME TypeOK /\ OneOrigin /\ Progressed, [Next]_vars PROVE Progressed'
  OBVIOUS
<1> USE RunInitAssumption DEF TypeOK, OneOrigin, Progressed, Completed, Entries, Identity, Marker, Objects
<1>1. ASSUME NEW p \in Initializers, Step(p), UNCHANGED config PROVE Progressed'
  <2>1. CASE Start(p)
    BY <1>1, <2>1 DEF Start, Goes, Refuse, diskVars, localVars, Valid, Consistent
  <2>2. CASE Lookup(p)
    BY <1>1, <2>2 DEF Lookup, Goes, Refuse, diskVars, localVars, Owns, Resumable
  <2>3. CASE Stage(p)
    BY <1>1, <2>3 DEF Stage, Goes, Refuse, diskVars, localVars
  <2>4. CASE Claim(p)
    BY <1>1, <2>4 DEF Claim, Goes, Refuse, diskVars, localVars, Claimable
  <2>5. CASE CheckRoot(p)
    BY <1>1, <2>5 DEF CheckRoot, Goes, Refuse, diskVars, localVars
  <2>6. CASE Retract(p)
    BY <1>1, <2>6 DEF Retract, Goes, Refuse, diskVars, localVars
  <2>7. CASE Own(p)
    BY <1>1, <2>7 DEF Own, Goes, Refuse, diskVars, localVars, Owns
  <2>8. CASE Mkdir(p)
    BY <1>1, <2>8 DEF Mkdir, Goes, Refuse, diskVars, localVars
  <2>9. CASE Link(p)
    <3>1. CASE Linkable(at[p], mine[p])
      <4> DEFINE k == at[p]
                 s == mine[p]
      <4>1. /\ k \in Entries /\ s \in Initializers /\ rootExists /\ ~replay[p]
            /\ config[s] = config[p]
            /\ \A e \in Entries : e < k => final[e] = s
            /\ final[k] \in {None, s}
            /\ pc[p] = "link"
        BY <2>9, <3>1 DEF Link, Linkable
      <4>2. /\ final' = [final EXCEPT ![k] = s]
            /\ at' = [at EXCEPT ![p] = k + 1]
            /\ pc' = [pc EXCEPT ![p] = IF k = Marker THEN "validate" ELSE "link"]
            /\ UNCHANGED <<rootExists, mine, replay, config>>
        BY <1>1, <2>9, <3>1, <4>1 DEF Link, Goes
      <4>3. \A e \in Entries : final[e] # None => final'[e] = final[e]
        BY <4>1, <4>2
      <4>4. \A e \in Entries : e < k + 1 => final'[e] = s
        BY <4>1, <4>2
      <4> HIDE DEF k
      <4>5. ASSUME NEW q \in Initializers, q # p
            PROVE  pc'[q] = pc[q] /\ at'[q] = at[q]
        BY <4>2, <4>5
      <4>6. Completed => Completed' /\ final'[Marker] = final[Marker]
        BY <4>3
      <4>7. ASSUME NEW q \in Initializers, q # p, pc[q] = "link"
            PROVE  \A e \in Entries : e < at[q] => final'[e] = mine[q]
        <5>1. mine[q] # None
          BY <4>7
        <5>2. \A e \in Entries : e < at[q] => final[e] = mine[q]
          BY <4>7
        <5>3. QED
          BY <5>1, <5>2, <4>3
      <4>8. CASE k = Marker
        <5>1. final'[Marker] = s /\ Completed' /\ pc'[p] = "validate"
          BY <4>1, <4>2, <4>4, <4>8
        <5>2. QED
          BY <4>1, <4>2, <4>5, <4>6, <4>7, <5>1
      <4>9. CASE k # Marker
        <5>1. k + 1 \in Entries /\ pc'[p] = "link" /\ at'[p] = k + 1
          BY <4>1, <4>2, <4>9
        <5>2. QED
          BY <4>1, <4>2, <4>4, <4>5, <4>6, <4>7, <5>1
      <4>10. QED
        BY <4>8, <4>9
    <3>2. CASE ~Linkable(at[p], mine[p])
      BY <1>1, <2>9, <3>2 DEF Link, Goes, Refuse, diskVars, localVars
    <3>3. QED
      BY <3>1, <3>2
  <2>10. CASE Validate(p)
    BY <1>1, <2>10 DEF Validate, Goes, Refuse, diskVars, localVars, Valid, Consistent
  <2>11. CASE Sweep(p)
    BY <1>1, <2>11 DEF Sweep, Goes, Refuse, diskVars, localVars, Owns, Valid, Consistent
  <2>12. CASE Remove(p)
    BY <1>1, <2>12 DEF Remove, Goes, Refuse, diskVars, localVars
  <2>13. CASE Removed(p)
    BY <1>1, <2>13 DEF Removed, Goes, Refuse, diskVars, localVars
  <2>14. CASE Compare(p)
    BY <1>1, <2>14 DEF Compare, Goes, Refuse, diskVars, localVars
  <2>15. CASE Crash(p)
    BY <1>1, <2>15 DEF Crash, Goes, Refuse, diskVars, localVars
  <2>16. QED
    BY <1>1, <2>1, <2>2, <2>3, <2>4, <2>5, <2>6, <2>7, <2>8, <2>9, <2>10, <2>11, <2>12, <2>13, <2>14, <2>15 DEF Step
<1>2. CASE StartActors /\ UNCHANGED config
  BY <1>2 DEF StartActors, localVars
<1>3. CASE Repair /\ UNCHANGED config
  BY <1>3 DEF Repair, localVars, Consistent
<1>4. CASE UNCHANGED vars
  BY <1>4 DEF vars
<1>5. QED
  BY <1>1, <1>2, <1>3, <1>4 DEF Next

\* A reservation goes with its claimant's retreat only.
LEMMA ReservedKept == TypeOK /\ OneOrigin /\ Progressed /\ Reserved /\ [Next]_vars => Reserved'
<1> SUFFICES ASSUME TypeOK /\ OneOrigin /\ Progressed /\ Reserved, [Next]_vars PROVE Reserved'
  OBVIOUS
<1> USE RunInitAssumption DEF TypeOK, OneOrigin, Progressed, Reserved, TookBack, Ended, Completed, Entries, Identity, Marker, Objects
<1>1. ASSUME NEW p \in Initializers, Step(p), UNCHANGED config PROVE Reserved'
  <2>1. CASE Start(p)
    BY <1>1, <2>1 DEF Start, Goes, Refuse, diskVars, localVars, Valid, Consistent
  <2>2. CASE Lookup(p)
    BY <1>1, <2>2 DEF Lookup, Goes, Refuse, diskVars, localVars, Owns, Resumable
  <2>3. CASE Stage(p)
    BY <1>1, <2>3 DEF Stage, Goes, Refuse, diskVars, localVars
  <2>4. CASE Claim(p)
    BY <1>1, <2>4 DEF Claim, Goes, Refuse, diskVars, localVars, Claimable
  <2>5. CASE CheckRoot(p)
    <3>1. CASE rootExists
      BY <1>1, <2>5, <3>1 DEF CheckRoot, Goes, diskVars
    <3>2. CASE ~rootExists
      <4>1. /\ pc' = [pc EXCEPT ![p] = "own"] /\ mine' = [mine EXCEPT ![p] = p]
            /\ reservation = p /\ pc[p] = "check"
            /\ UNCHANGED <<rootExists, reservation, final>>
        BY <1>1, <2>5, <3>2 DEF CheckRoot, Goes, diskVars
      <4>2. \A q \in Initializers \ {p} : pc'[q] = pc[q] /\ mine'[q] = mine[q]
        BY <4>1
      <4>3. TookBack => TookBack'
        BY <4>1, <4>2
      <4> HIDE DEF TookBack
      <4>4. QED
        BY <3>2, <4>1, <4>2, <4>3
    <3>3. QED
      BY <3>1, <3>2
  <2>6. CASE Retract(p)
    BY <1>1, <2>6 DEF Retract, Goes, Refuse, diskVars, localVars
  <2>7. CASE Own(p)
    BY <1>1, <2>7 DEF Own, Goes, Refuse, diskVars, localVars, Owns
  <2>8. CASE Mkdir(p)
    BY <1>1, <2>8 DEF Mkdir, Goes, Refuse, diskVars, localVars
  <2>9. CASE Link(p)
    BY <1>1, <2>9 DEF Link, Goes, Refuse, diskVars, localVars, Linkable
  <2>10. CASE Validate(p)
    BY <1>1, <2>10 DEF Validate, Goes, Refuse, diskVars, localVars, Valid, Consistent
  <2>11. CASE Sweep(p)
    BY <1>1, <2>11 DEF Sweep, Goes, Refuse, diskVars, localVars, Owns, Valid, Consistent
  <2>12. CASE Remove(p)
    BY <1>1, <2>12 DEF Remove, Goes, Refuse, diskVars, localVars
  <2>13. CASE Removed(p)
    BY <1>1, <2>13 DEF Removed, Goes, Refuse, diskVars, localVars
  <2>14. CASE Compare(p)
    BY <1>1, <2>14 DEF Compare, Goes, Refuse, diskVars, localVars
  <2>15. CASE Crash(p)
    BY <1>1, <2>15 DEF Crash, Goes, Refuse, diskVars, localVars
  <2>16. QED
    BY <1>1, <2>1, <2>2, <2>3, <2>4, <2>5, <2>6, <2>7, <2>8, <2>9, <2>10, <2>11, <2>12, <2>13, <2>14, <2>15 DEF Step
<1>2. CASE StartActors /\ UNCHANGED config
  BY <1>2 DEF StartActors, localVars
<1>3. CASE Repair /\ UNCHANGED config
  BY <1>3 DEF Repair, localVars, Consistent
<1>4. CASE UNCHANGED vars
  BY <1>4 DEF vars
<1>5. QED
  BY <1>1, <1>2, <1>3, <1>4 DEF Next

\* Nobody removes a file of a staging root before the marker is there.
LEMMA StagedKept == TypeOK /\ Progressed /\ StagedWhole /\ [Next]_vars => StagedWhole'
<1> SUFFICES ASSUME TypeOK /\ Progressed /\ StagedWhole, [Next]_vars PROVE StagedWhole'
  OBVIOUS
<1> USE RunInitAssumption DEF TypeOK, Progressed, StagedWhole, Completed, Entries, Identity, Marker, Objects
<1>1. ASSUME NEW p \in Initializers, Step(p), UNCHANGED config PROVE StagedWhole'
  <2>1. CASE Start(p)
    BY <1>1, <2>1 DEF Start, Goes, Refuse, diskVars, localVars, Valid, Consistent
  <2>2. CASE Lookup(p)
    BY <1>1, <2>2 DEF Lookup, Goes, Refuse, diskVars, localVars, Owns, Resumable
  <2>3. CASE Stage(p)
    <3>1. CASE rootExists
      BY <1>1, <2>3, <3>1 DEF Stage, Goes, Refuse, diskVars, localVars
    <3>2. CASE ~rootExists
      <4>1. /\ pc' = [pc EXCEPT ![p] = "claim"]
            /\ staged' = [staged EXCEPT ![p] = Entries]
            /\ UNCHANGED <<reservation, final>>
        BY <2>3, <3>2 DEF Stage, Goes
      <4> HIDE DEF Entries
      <4>2. \A q \in Initializers : staged'[q] = IF q = p THEN Entries ELSE staged[q]
        BY <4>1
      <4>3. QED
        BY <4>1, <4>2
    <3>3. QED
      BY <3>1, <3>2
  <2>4. CASE Claim(p)
    BY <1>1, <2>4 DEF Claim, Goes, Refuse, diskVars, localVars, Claimable
  <2>5. CASE CheckRoot(p)
    BY <1>1, <2>5 DEF CheckRoot, Goes, Refuse, diskVars, localVars
  <2>6. CASE Retract(p)
    BY <1>1, <2>6 DEF Retract, Goes, Refuse, diskVars, localVars
  <2>7. CASE Own(p)
    BY <1>1, <2>7 DEF Own, Goes, Refuse, diskVars, localVars, Owns
  <2>8. CASE Mkdir(p)
    BY <1>1, <2>8 DEF Mkdir, Goes, Refuse, diskVars, localVars
  <2>9. CASE Link(p)
    BY <1>1, <2>9 DEF Link, Goes, Refuse, diskVars, localVars, Linkable
  <2>10. CASE Validate(p)
    BY <1>1, <2>10 DEF Validate, Goes, Refuse, diskVars, localVars, Valid, Consistent
  <2>11. CASE Sweep(p)
    BY <1>1, <2>11 DEF Sweep, Goes, Refuse, diskVars, localVars, Owns, Valid, Consistent
  <2>12. CASE Remove(p)
    BY <1>1, <2>12 DEF Remove, Goes, Refuse, diskVars, localVars
  <2>13. CASE Removed(p)
    BY <1>1, <2>13 DEF Removed, Goes, Refuse, diskVars, localVars
  <2>14. CASE Compare(p)
    BY <1>1, <2>14 DEF Compare, Goes, Refuse, diskVars, localVars
  <2>15. CASE Crash(p)
    BY <1>1, <2>15 DEF Crash, Goes, Refuse, diskVars, localVars
  <2>16. QED
    BY <1>1, <2>1, <2>2, <2>3, <2>4, <2>5, <2>6, <2>7, <2>8, <2>9, <2>10, <2>11, <2>12, <2>13, <2>14, <2>15 DEF Step
<1>2. CASE StartActors /\ UNCHANGED config
  BY <1>2 DEF StartActors, localVars
<1>3. CASE Repair /\ UNCHANGED config
  BY <1>3 DEF Repair, localVars, Consistent
<1>4. CASE UNCHANGED vars
  BY <1>4 DEF vars
<1>5. QED
  BY <1>1, <1>2, <1>3, <1>4 DEF Next

-----------------------------------------------------------------------------
\* The invariant is inductive.
LEMMA InvKept == IInv /\ [Next]_vars => IInv'
BY TypeKept, OriginKept, ProgressKept, ReservedKept, StagedKept DEF IInv

\* The invariant holds in every state that is reached.
LEMMA RunInitInvariant == Spec => []IInv
<1>1. Init => IInv
  BY InitIInv
<1>2. IInv /\ [Next]_vars => IInv'
  BY InvKept
<1>3. QED
  BY <1>1, <1>2, PTL DEF Spec

\* The variables have their types, whoever races with whom.
THEOREM RunInitTypeCorrect == Spec => []TypeOK
<1>1. IInv => TypeOK
  BY DEF IInv
<1>2. QED
  BY <1>1, RunInitInvariant, PTL

\* A final root keeps its reservation, holds files of the reserved staging
\* root only and, until it is complete, can be resumed from it; unless a
\* claimant took its reservation back.
THEOREM RunInitRootIsOwned == Spec => []RootIsOwned
<1>1. IInv => RootIsOwned
  BY DEF IInv, Reserved, StagedWhole, TookBack, RootIsOwned
<1>2. QED
  BY <1>1, RunInitInvariant, PTL

-----------------------------------------------------------------------------
(* Refinement.                                                             *)

\* A run that readers see stays as it is.
LEMMA VisibleKept ==
    ASSUME UNCHANGED final
    PROVE  Visible' = Visible
BY DEF Visible, Completed

\* Whoever goes on without an answer is, for RunPublication, not there.
LEMMA OutcomeKept ==
    ASSUME TypeOK, NEW p \in Initializers, NEW step \in Steps \ Ended,
           pc[p] \notin Ended, Goes(p, step)
    PROVE  UNCHANGED [q \in Initializers |-> Outcome(pc[q])]
<1>1. \A q \in Initializers : Outcome(pc'[q]) = Outcome(pc[q])
  BY DEF TypeOK, Goes, Outcome, Ended
<1>2. QED
  BY <1>1

\* A refusal is one for RunPublication.
LEMMA FailMapped ==
    ASSUME TypeOK, NEW p \in Initializers, NEW step \in {"failed", "tookBack"},
           pc[p] \notin Ended, Goes(p, step), UNCHANGED <<config, final>>
    PROVE  Publication!Fail(p)
<1>1. Outcome(pc[p]) = "none" /\ Outcome(step) = "failed"
  BY DEF Outcome, Ended
<1>2. [q \in Initializers |-> Outcome(pc[q])]'
        = [[q \in Initializers |-> Outcome(pc[q])] EXCEPT ![p] = "failed"]
  BY <1>1 DEF TypeOK, Goes
<1>3. QED
  BY <1>1, <1>2, VisibleKept DEF Publication!Fail

\* An initializer that returns finds the run of its configuration.
LEMMA SuccessMapped ==
    ASSUME TypeOK, OneOrigin, NEW p \in Initializers, pc[p] \notin Ended,
           Completed, config[final[Marker]] = config[p],
           Goes(p, "success"), UNCHANGED <<config, final>>
    PROVE  Publication!Succeed(p)
<1>1. Outcome(pc[p]) = "none" /\ Outcome("success") = "success"
  BY DEF Outcome, Ended
<1>2. [q \in Initializers |-> Outcome(pc[q])]'
        = [[q \in Initializers |-> Outcome(pc[q])] EXCEPT ![p] = "success"]
  BY <1>1 DEF TypeOK, Goes
<1>3. Visible = {<<e, final[e]>> : e \in Entries}
  BY DEF Visible
<1>4. Identity \in Entries /\ \A e \in Entries : final[e] = final[Marker]
  BY RunInitAssumption DEF OneOrigin, Consistent, Entries, Identity
<1>5. Visible # {} /\ \A file \in Visible : config[file[2]] = config[p]
  <2>1. <<Identity, final[Identity]>> \in Visible
    BY <1>3, <1>4
  <2>2. ASSUME NEW file \in Visible PROVE config[file[2]] = config[p]
    <3>1. PICK e \in Entries : file = <<e, final[e]>>
      BY <1>3, <2>2
    <3>2. file[2] = final[Marker]
      BY <1>4, <3>1
    <3>3. QED
      BY <3>2
  <2>3. QED
    BY <2>1, <2>2
<1>6. QED
  BY <1>1, <1>2, <1>5, VisibleKept DEF Publication!Succeed

\* Linking the marker makes the run appear; another file nobody sees.
LEMMA LinkMapped ==
    ASSUME IInv, IInv', NEW p \in Initializers, Link(p), UNCHANGED config,
           Linkable(at[p], mine[p])
    PROVE  Publication!Publish(mine[p]) \/ UNCHANGED Visible
<1> DEFINE k == at[p]
           s == mine[p]
<1>1. /\ k \in Entries /\ s \in Initializers /\ pc[p] = "link"
      /\ final[k] \in {None, s}
  BY RunInitAssumption DEF IInv, TypeOK, Progressed, Link, Linkable, Steps
<1>2. /\ final' = [final EXCEPT ![k] = s]
      /\ pc' = [pc EXCEPT ![p] = IF k = Marker THEN "validate" ELSE "link"]
  BY <1>1 DEF Link, Goes
<1>3. Marker \in Entries /\ final \in [Entries -> Initializers \cup {None}]
  BY RunInitAssumption DEF Marker, Entries, IInv, TypeOK
<1>4. CASE Completed
  <2>1. \A e \in Entries : final[e] = final[Marker] /\ final[e] # None
    BY <1>4 DEF IInv, OneOrigin, Consistent, Completed
  <2>2. final' = final
    BY <1>1, <1>2, <1>3, <2>1
  <2>3. QED
    BY <2>2, VisibleKept
<1>5. CASE ~Completed /\ k # Marker
  <2>1. ~Completed'
    BY <1>1, <1>2, <1>3, <1>5 DEF Completed
  <2>2. QED
    BY <1>5, <2>1 DEF Visible
<1>6. CASE ~Completed /\ k = Marker
  <2>1. final'[Marker] = s /\ s # None /\ Completed'
    BY <1>1, <1>2, <1>3, <1>6, RunInitAssumption DEF Completed
  <2>2. \A e \in Entries : final'[e] = s
    BY <2>1 DEF IInv, OneOrigin, Consistent
  <2>3. Visible = {} /\ Visible' = {<<e, final'[e]>> : e \in Entries}
    BY <1>6, <2>1 DEF Visible
  <2>4. Visible' = Entries \X {s}
    BY <2>2, <2>3
  <2>5. \A q \in Initializers : Outcome(pc'[q]) = Outcome(pc[q])
    <3>1. pc \in [Initializers -> Steps]
      BY DEF IInv, TypeOK
    <3>2. QED
      BY <1>1, <1>2, <3>1 DEF Outcome, Ended
  <2>6. UNCHANGED [q \in Initializers |-> Outcome(pc[q])]
    BY <2>5
  <2>7. QED
    BY <2>3, <2>4, <2>6 DEF Publication!Publish
<1>7. QED
  BY <1>4, <1>5, <1>6

\* Every step of an initializer is a step of RunPublication or none.
LEMMA StepMapped ==
    ASSUME IInv, IInv', NEW p \in Initializers, Step(p), UNCHANGED config
    PROVE  [Publication!PublicationNext]_(Publication!publicationVars)
<1> DEFINE told == [q \in Initializers |-> Outcome(pc[q])]
           Stays == UNCHANGED <<config, Visible, told>>
<1>1. TypeOK /\ OneOrigin /\ Progressed
  BY DEF IInv
<1>2. Stays => UNCHANGED Publication!publicationVars
  BY DEF Publication!publicationVars
<1>3. ASSUME UNCHANGED final, NEW step \in Steps \ Ended, pc[p] \notin Ended,
             Goes(p, step)
      PROVE  Stays
  BY <1>1, <1>3, VisibleKept, OutcomeKept
<1>4. ASSUME pc[p] \notin Ended, Refuse(p) PROVE Publication!Fail(p)
  BY <1>1, <1>4, FailMapped DEF Refuse, diskVars
<1>5. CASE Start(p)
  BY <1>3, <1>4, <1>5, <1>2 DEF Start, diskVars, Ended, Steps, Publication!PublicationNext
<1>6. CASE Lookup(p)
  BY <1>3, <1>4, <1>6, <1>2 DEF Lookup, diskVars, Ended, Steps, Publication!PublicationNext
<1>7. CASE Stage(p)
  BY <1>3, <1>4, <1>7, <1>2 DEF Stage, Ended, Steps, Publication!PublicationNext
<1>8. CASE Claim(p)
  BY <1>3, <1>4, <1>8, <1>2 DEF Claim, Ended, Steps, Publication!PublicationNext
<1>9. CASE CheckRoot(p)
  BY <1>3, <1>9, <1>2 DEF CheckRoot, diskVars, Ended, Steps
<1>10. CASE Retract(p)
  BY <1>1, <1>10, FailMapped DEF Retract, Ended, Publication!PublicationNext
<1>11. CASE Own(p)
  BY <1>3, <1>4, <1>11, <1>2 DEF Own, diskVars, Ended, Steps, Publication!PublicationNext
<1>12. CASE Mkdir(p)
  BY <1>3, <1>12, <1>2 DEF Mkdir, Ended, Steps
<1>13. CASE Link(p)
  <2>1. CASE ~Linkable(at[p], mine[p])
    BY <1>4, <1>13, <2>1 DEF Link, Ended, Publication!PublicationNext
  <2>2. CASE Linkable(at[p], mine[p])
    <3>1. mine[p] \in Initializers
      BY <1>1, <1>13 DEF TypeOK, Progressed, Link
    <3>2. UNCHANGED told
      <4>1. Goes(p, "validate") \/ Goes(p, "link")
        BY <1>13, <2>2 DEF Link
      <4>2. pc[p] \notin Ended
        BY <1>13 DEF Link, Ended
      <4>3. {"validate", "link"} \subseteq Steps \ Ended
        BY DEF Steps, Ended
      <4>4. QED
        BY <1>1, <4>1, <4>2, <4>3, OutcomeKept
    <3>3. QED
      BY <1>2, <1>13, <2>2, <3>1, <3>2, LinkMapped DEF Publication!PublicationNext
  <2>3. QED
    BY <2>1, <2>2
<1>14. CASE Validate(p)
  BY <1>3, <1>4, <1>14, <1>2 DEF Validate, diskVars, Ended, Steps, Publication!PublicationNext
<1>15. CASE Sweep(p)
  BY <1>3, <1>4, <1>15, <1>2 DEF Sweep, diskVars, Ended, Steps, Publication!PublicationNext
<1>16. CASE Remove(p)
  <2>1. PICK e \in left[p] :
          IF e \in staged[mine[p]]
            THEN UNCHANGED <<pc, final>>
            ELSE Refuse(p)
    BY <1>16 DEF Remove
  <2>2. CASE e \in staged[mine[p]]
    BY <1>2, <2>1, <2>2, VisibleKept
  <2>3. CASE e \notin staged[mine[p]]
    BY <1>4, <1>16, <2>1, <2>3 DEF Remove, Ended, Publication!PublicationNext
  <2>4. QED
    BY <2>2, <2>3
<1>17. CASE Removed(p)
  <2>1. CASE replay[p]
    BY <1>3, <1>17, <2>1, <1>2 DEF Removed, diskVars, Ended, Steps
  <2>2. CASE ~replay[p]
    <3>1. Completed /\ config[final[Marker]] = config[p]
      BY <1>1, <1>17, <2>2 DEF Removed, Progressed
    <3>2. Publication!Succeed(p)
      BY <1>1, <1>17, <2>2, <3>1, SuccessMapped DEF Removed, diskVars, Ended
    <3>3. QED
      BY <3>2 DEF Publication!PublicationNext
  <2>3. QED
    BY <2>1, <2>2
<1>18. CASE Compare(p)
  <2>1. CASE config[final[Marker]] = config[p]
    <3>1. Completed
      BY <1>1, <1>18 DEF Compare, Progressed
    <3>2. Publication!Succeed(p)
      BY <1>1, <1>18, <2>1, <3>1, SuccessMapped DEF Compare, diskVars, Ended
    <3>3. QED
      BY <3>2 DEF Publication!PublicationNext
  <2>2. CASE config[final[Marker]] # config[p]
    BY <1>4, <1>18, <2>2 DEF Compare, Ended, Publication!PublicationNext
  <2>3. QED
    BY <2>1, <2>2
<1>19. CASE Crash(p)
  BY <1>1, <1>19, FailMapped DEF Crash, diskVars, Publication!PublicationNext
<1>20. QED
  BY <1>5, <1>6, <1>7, <1>8, <1>9, <1>10, <1>11, <1>12, <1>13, <1>14, <1>15, <1>16, <1>17, <1>18, <1>19 DEF Step

\* RunInit implements RunPublication: readers that wait for the marker see
\* nothing, or for ever the whole work of one initializer, and who returns
\* without an exception finds the run of its own configuration.
THEOREM RunInitImplementsPublication == Spec => ImplementsPublication
<1>1. Init => Publication!PublicationInit
  <2> SUFFICES ASSUME Init PROVE Publication!PublicationInit
    OBVIOUS
  <2>1. ~Completed
    BY RunInitAssumption DEF Init, Completed, Marker, Entries
  <2>2. [q \in Initializers |-> Outcome(pc[q])] = [q \in Initializers |-> "none"]
    BY DEF Init, Outcome, Ended
  <2>3. QED
    BY <2>1, <2>2 DEF Init, Visible, Publication!PublicationInit
<1>2. IInv /\ IInv' /\ [Next]_vars
        => [Publication!PublicationNext]_(Publication!publicationVars)
  <2> SUFFICES ASSUME IInv, IInv', [Next]_vars
               PROVE  [Publication!PublicationNext]_(Publication!publicationVars)
    OBVIOUS
  <2>1. CASE UNCHANGED <<config, pc, final>>
    BY <2>1, VisibleKept DEF Publication!publicationVars
  <2>2. ASSUME NEW p \in Initializers, Step(p), UNCHANGED config
        PROVE  [Publication!PublicationNext]_(Publication!publicationVars)
    BY <2>2, StepMapped
  <2>3. QED
    BY <2>1, <2>2 DEF Next, StartActors, Repair, vars
<1>3. QED
  BY <1>1, <1>2, RunInitInvariant, PTL
     DEF Spec, ImplementsPublication, Publication!PublicationSpec
=============================================================================
