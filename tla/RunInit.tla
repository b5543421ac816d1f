------------------------------- MODULE RunInit -------------------------------
(***************************************************************************)
(* storage/run_initializer.py under tools/init_run.py: initializers that   *)
(* run at the same time, die anywhere and are started again publish one    *)
(* run directory without ever replacing a file.  Each prepares a staging   *)
(* root of its own; a hard link of its identity beside the final root, the *)
(* reservation, says whose work the run will be; the files are linked into *)
(* the final root one by one, the marker last.                             *)
(*                                                                         *)
(* Data abstracted: an inode is the initializer that created it and the    *)
(* entry's place in the manifest; the bytes of a file go with its inode,   *)
(* as they hold the time of their creation.  Directories are made before   *)
(* the files in them and collide with nothing.  fsync makes a step last    *)
(* and changes nothing that a process sees.                                *)
(***************************************************************************)
EXTENDS Integers

CONSTANTS
    Initializers,   \* processes of init_run, each of them one invocation
    Configs,        \* full configuration identities
    ObjectCount,    \* files that the manifest lists after the identity
    None

ASSUME RunInitAssumption ==
    /\ ObjectCount \in Nat
    /\ None \notin Initializers

\* The files in the order in which they are linked: the identity, the other
\* objects, and .complete.source, which becomes the marker.
Identity == 0
Objects  == 1 .. ObjectCount
Marker   == ObjectCount + 1
Entries  == 0 .. ObjectCount + 1

VARIABLES
    config,       \* the configuration each initializer was started with
    pc,           \* where it is
    mine,         \* the staging root it works on, by who created it
    at,           \* the entry it links next
    left,         \* the entries it has still to remove
    replay,       \* it found a completed run
    staged,       \* files in each staging root
    reservation,  \* inode of .<run>.identity-reservation
    rootExists,   \* the final root has been made
    final,        \* inode of each file in the final root
    started       \* actors have begun to write into the run

vars == <<config, pc, mine, at, left, replay, staged, reservation, rootExists,
          final, started>>

\* What initializers share, and what each of them keeps.
diskVars  == <<staged, reservation, rootExists, final, started>>
localVars == <<mine, at, left, replay>>

Ended == {"success", "failed", "tookBack"}
Steps == {"start", "lookup", "vacant", "claim", "check", "retract", "own",
          "mkdir", "link", "validate", "sweep", "remove", "compare"} \cup Ended

TypeOK ==
    /\ config \in [Initializers -> Configs]
    /\ pc \in [Initializers -> Steps]
    /\ mine \in [Initializers -> Initializers \cup {None}]
    /\ at \in [Initializers -> 0 .. ObjectCount + 2]
    /\ left \in [Initializers -> SUBSET Entries]
    /\ replay \in [Initializers -> BOOLEAN]
    /\ staged \in [Initializers -> SUBSET Entries]
    /\ reservation \in Initializers \cup {None}
    /\ rootExists \in BOOLEAN
    /\ final \in [Entries -> Initializers \cup {None}]
    /\ started \in BOOLEAN

Init ==
    /\ config \in [Initializers -> Configs]
    /\ pc = [p \in Initializers |-> "start"]
    /\ mine = [p \in Initializers |-> None]
    /\ at = [p \in Initializers |-> 0]
    /\ left = [p \in Initializers |-> {}]
    /\ replay = [p \in Initializers |-> FALSE]
    /\ staged = [p \in Initializers |-> {}]
    /\ reservation = None
    /\ rootExists = FALSE
    /\ final = [e \in Entries |-> None]
    /\ started = FALSE

-----------------------------------------------------------------------------
(* What is read from disk.                                                 *)

Completed == final[Marker] # None

\* Every object is the one that the marker's manifest lists.
Consistent == Completed /\ \A e \in Entries : final[e] = final[Marker]

\* validate_completed_run: the run is whole and the reservation is its own.
Valid == Consistent /\ reservation = final[Identity]

\* The identity in the staging root of s is the reserved inode.
Owns(s) == s # None /\ reservation = s /\ Identity \in staged[s]

Goes(p, step) == pc' = [pc EXCEPT ![p] = step]

\* An exception ends p and changes nothing else.
Refuse(p) == Goes(p, "failed") /\ UNCHANGED <<diskVars, localVars>>

-----------------------------------------------------------------------------
(* initialize_run, up to the publication.                                  *)

\* A run that is complete must be valid; otherwise p looks for a staging
\* root to resume.
Start(p) ==
    /\ pc[p] = "start"
    /\ IF Completed /\ ~Valid
         THEN Refuse(p)
         ELSE /\ Goes(p, "lookup")
              /\ replay' = [replay EXCEPT ![p] = Completed]
              /\ UNCHANGED <<mine, at, left, diskVars>>

\* Variant: any staging root that is reserved is resumed.
ResumableAny(p) == Owns(reservation)

\* The reserved staging root is there and of p's own configuration.
Resumable(p) == Owns(reservation) /\ config[reservation] = config[p]

\* find_reserved_staging and what follows from it.  Of a completed run the
\* staging root is removed if it is still there.
Lookup(p) ==
    /\ pc[p] = "lookup"
    /\ \/ /\ replay[p] /\ Owns(reservation)
          /\ mine' = [mine EXCEPT ![p] = reservation]
          /\ Goes(p, "sweep")
          /\ UNCHANGED <<at, left, replay, diskVars>>
       \/ /\ replay[p] /\ ~Owns(reservation)
          /\ Goes(p, "compare")
          /\ UNCHANGED <<localVars, diskVars>>
       \/ /\ ~replay[p] /\ Resumable(p)
          /\ mine' = [mine EXCEPT ![p] = reservation]
          /\ Goes(p, "own")
          /\ UNCHANGED <<at, left, replay, diskVars>>
       \/ /\ ~replay[p] /\ reservation = None
          /\ Goes(p, "vacant")
          /\ UNCHANGED <<localVars, diskVars>>
       \/ /\ ~replay[p] /\ reservation # None /\ ~Resumable(p)
          /\ Refuse(p)

\* A final root without a reservation is refused; otherwise p creates and
\* populates a staging root (create_staging_root, _populate_staging), of
\* which nobody knows before it is reserved.
Stage(p) ==
    /\ pc[p] = "vacant"
    /\ IF rootExists
         THEN Refuse(p)
         ELSE /\ Goes(p, "claim")
              /\ staged' = [staged EXCEPT ![p] = Entries]
              /\ UNCHANGED <<reservation, rootExists, final, started, localVars>>

\* Variant: the reservation is replaced.
ClaimableAny == TRUE

\* os.link fails if the name exists.
Claimable == reservation = None

\* claim_identity_reservation: the link that only one can make.
Claim(p) ==
    /\ pc[p] = "claim"
    /\ IF ~Claimable
         THEN Refuse(p)
         ELSE /\ Goes(p, "check")
              /\ reservation' = p
              /\ UNCHANGED <<staged, rootExists, final, started, localVars>>

\* Under its reservation p looks whether a final root has appeared.
CheckRoot(p) ==
    /\ pc[p] = "check"
    /\ IF rootExists
         THEN Goes(p, "retract") /\ UNCHANGED mine
         ELSE Goes(p, "own") /\ mine' = [mine EXCEPT ![p] = p]
    /\ UNCHANGED <<at, left, replay, diskVars>>

\* It has: p takes its reservation back and gives up.
Retract(p) ==
    /\ pc[p] = "retract"
    /\ Goes(p, "tookBack")
    /\ reservation' = None
    /\ UNCHANGED <<staged, rootExists, final, started, localVars>>

-----------------------------------------------------------------------------
(* publish_staged_run.                                                     *)

\* The staging root must own the reservation and have its manifest.
Own(p) ==
    /\ pc[p] = "own"
    /\ IF Owns(mine[p]) /\ Marker \in staged[mine[p]]
         THEN Goes(p, "mkdir") /\ UNCHANGED <<diskVars, localVars>>
         ELSE Refuse(p)

\* The final root is made, or is there.  (Of two that find it missing one
\* gets FileExistsError, as if it crashed here.)
Mkdir(p) ==
    /\ pc[p] = "mkdir"
    /\ Goes(p, "link")
    /\ rootExists' = TRUE
    /\ UNCHANGED <<staged, reservation, final, started, localVars>>

\* _link_exact: nothing has that name, or the same inode has.
Linkable(e, s) == e \in staged[s] /\ final[e] \in {None, s}

\* One more file is linked into the final root, the marker as the last.
Link(p) ==
    /\ pc[p] = "link"
    /\ IF Linkable(at[p], mine[p])
         THEN /\ final' = [final EXCEPT ![at[p]] = IF @ = None THEN mine[p] ELSE @]
              /\ at' = [at EXCEPT ![p] = @ + 1]
              /\ Goes(p, IF at[p] = Marker THEN "validate" ELSE "link")
              /\ UNCHANGED <<staged, reservation, rootExists, started, mine,
                             left, replay>>
         ELSE Refuse(p)

\* The strict validation of a run that was just published: nothing else may
\* be in the final root, files of actors that were quick included.
Validate(p) ==
    /\ pc[p] = "validate"
    /\ IF Valid /\ ~started
         THEN Goes(p, "sweep") /\ UNCHANGED <<diskVars, localVars>>
         ELSE Refuse(p)

-----------------------------------------------------------------------------
(* remove_completed_staging, and the answer.                               *)

\* Under the reservation of the valid run, the entries that are found are removed one by one.
Sweep(p) ==
    /\ pc[p] = "sweep"
    /\ IF Valid /\ Owns(mine[p])
         THEN /\ Goes(p, "remove")
              /\ left' = [left EXCEPT ![p] = staged[mine[p]]]
              /\ UNCHANGED <<mine, at, replay, diskVars>>
         ELSE Refuse(p)

\* Deeper entries go first; one that somebody else has removed is an error.
Remove(p) ==
    /\ pc[p] = "remove"
    /\ \E e \in left[p] :
         /\ e \notin Objects => left[p] \cap Objects = {}
         /\ IF e \in staged[mine[p]]
              THEN /\ staged' = [staged EXCEPT ![mine[p]] = @ \ {e}]
                   /\ left' = [left EXCEPT ![p] = @ \ {e}]
                   /\ UNCHANGED <<pc, mine, at, replay, reservation, rootExists,
                                  final, started>>
              ELSE Refuse(p)

\* The staging root is gone.
Removed(p) ==
    /\ pc[p] = "remove"
    /\ left[p] = {}
    /\ Goes(p, IF replay[p] THEN "compare" ELSE "success")
    /\ UNCHANGED <<diskVars, localVars>>

\* A completed run of another identity is refused.
Compare(p) ==
    /\ pc[p] = "compare"
    /\ IF config[final[Marker]] = config[p]
         THEN Goes(p, "success") /\ UNCHANGED <<diskVars, localVars>>
         ELSE Refuse(p)

-----------------------------------------------------------------------------
(* Everything else that happens to the run directory.                      *)

\* p dies, or a file system call of its fails.
Crash(p) ==
    /\ pc[p] \notin Ended
    /\ Goes(p, "failed")
    /\ UNCHANGED <<diskVars, localVars>>

\* load_run_descriptor: an actor finds a valid run and begins its work.
StartActors ==
    /\ Valid
    /\ started' = TRUE
    /\ UNCHANGED <<pc, staged, reservation, rootExists, final, localVars>>

\* repair_identity_reservation, by hand.
Repair ==
    /\ reservation = None
    /\ Consistent
    /\ reservation' = final[Identity]
    /\ UNCHANGED <<pc, staged, rootExists, final, started, localVars>>

Step(p) ==
    \/ Start(p) \/ Lookup(p) \/ Stage(p) \/ Claim(p) \/ CheckRoot(p) \/ Retract(p)
    \/ Own(p) \/ Mkdir(p) \/ Link(p) \/ Validate(p)
    \/ Sweep(p) \/ Remove(p) \/ Removed(p) \/ Compare(p)
    \/ Crash(p)

Next ==
    /\ \/ \E p \in Initializers : Step(p)
       \/ StartActors
       \/ Repair
    /\ UNCHANGED config

Spec == Init /\ [][Next]_vars
=============================================================================
