---------------------------- MODULE ConfigReload ----------------------------
(***************************************************************************)
(* ConfigManager of config.py over a workflow file that people edit while  *)
(* the service reads it: reload_if_changed looks at the file's time stamp, *)
(* then load_workflow (workflow.py) reads the text and only then the stamp *)
(* that goes with it.  The manager runs in one thread, without suspension; *)
(* an edit may come between any two of its system calls.                   *)
(***************************************************************************)
EXTENDS Naturals

CONSTANTS
    Good,       \* texts that parse and validate
    Bad,        \* texts that do not
    MaxStamp    \* bound on the number of stamps

ASSUME TextsAssumption == Good # {} /\ Good \intersect Bad = {}
ASSUME StampAssumption == MaxStamp \in Nat \ {0}

Texts == Good \union Bad
Versions == [text : Texts, stamp : 1 .. MaxStamp]
Missing == [text |-> "missing", stamp |-> 0]

VARIABLES
    file,       \* the workflow file
    past,       \* every version it ever had
    loaded,     \* self.workflow and self.config, or Missing before startup
    error,      \* is last_reload_error set?
    pc,         \* "idle", "read" or "stamp": the next system call of a load
    text        \* what load_workflow has read

manager == <<loaded, error, pc, text>>
reloadVars == <<file, past, manager>>

ReloadTypeOK ==
    /\ file \in Versions \union {Missing}
    /\ past \subseteq Versions
    /\ loaded \in [text : Texts, stamp : 0 .. MaxStamp] \union {Missing}
    /\ error \in BOOLEAN
    /\ pc \in {"idle", "read", "stamp"}
    /\ text \in Texts \union {"none"}

ReloadInit ==
    /\ \E t \in Texts : file = [text |-> t, stamp |-> 1]
    /\ past = {file}
    /\ loaded = Missing
    /\ error = FALSE
    /\ pc = "idle"
    /\ text = "none"

-----------------------------------------------------------------------------
(* The manager *)

HasLoaded == loaded # Missing

(* A load is given up.  At startup the exception ends the service, which   *)
(* is started again.                                                       *)
Fails ==
    /\ pc' = "idle"
    /\ text' = "none"
    /\ error' = HasLoaded
    /\ UNCHANGED loaded

(* reload_if_changed: a file that cannot be looked at is an error, one     *)
(* with the stamp of the loaded workflow is left alone, and so is the      *)
(* error.                                                                  *)
LookForNewer ==
    /\ pc = "idle"
    /\ IF HasLoaded /\ file = Missing THEN Fails
       ELSE /\ ~HasLoaded \/ file.stamp > loaded.stamp
            /\ pc' = "read"
            /\ UNCHANGED <<loaded, error, text>>
    /\ UNCHANGED <<file, past>>

Look ==
    /\ pc = "idle"
    /\ IF HasLoaded /\ file = Missing THEN Fails
       ELSE /\ ~HasLoaded \/ file.stamp # loaded.stamp
            /\ pc' = "read"
            /\ UNCHANGED <<loaded, error, text>>
    /\ UNCHANGED <<file, past>>

Read ==
    /\ pc = "read"
    /\ IF file = Missing THEN Fails
       ELSE /\ pc' = "stamp"
            /\ text' = file.text
            /\ UNCHANGED <<loaded, error>>
    /\ UNCHANGED <<file, past>>

(* The text parses, resolves, and passes validate_dispatch_config.         *)
Valid(t) == t \in Good

(* The stamp is read, 0 standing for None; the text is parsed, resolved    *)
(* and validated, and only then put in force.                              *)
Stamp ==
    /\ pc = "stamp"
    /\ IF ~Valid(text) THEN Fails
       ELSE /\ loaded' = [text |-> text, stamp |-> file.stamp]
            /\ error' = FALSE
            /\ pc' = "idle"
            /\ text' = "none"
    /\ UNCHANGED <<file, past>>

-----------------------------------------------------------------------------
(* The people *)

Put(v) ==
    /\ file' = v
    /\ past' = past \union ({v} \ {Missing})
    /\ UNCHANGED manager

Fresh(s) == \A v \in past : v.stamp < s

(* A file is saved; or saved twice between two ticks of the file system's  *)
(* clock; or moved away; or moved back with the stamp it had.              *)
Save == \E v \in Versions : Fresh(v.stamp) /\ Put(v)
SaveAtOnce == file # Missing /\ \E t \in Texts : Put([file EXCEPT !.text = t])
MoveAway == Put(Missing)
MoveBack == \E v \in past : Put(v)

Manager == Look \/ Read \/ Stamp
People == Save \/ SaveAtOnce \/ MoveAway \/ MoveBack
ReloadNext == Manager \/ People

(* Every tick of the service and every validation of it reloads.           *)
ReloadSpec == ReloadInit /\ [][ReloadNext]_reloadVars /\ WF_reloadVars(Manager)

-----------------------------------------------------------------------------
(* Properties *)

(* The configuration in force is one that was in the file and is valid,    *)
(* whatever the file has become since and between two system calls; before *)
(* the first one is loaded no error is remembered that would outlive it.   *)
LastKnownGoodIsKept ==
    IF HasLoaded THEN loaded.text \in Good /\ \E v \in past : v.text = loaded.text
                 ELSE ~error

(* docs/IMPLEMENTATION.md: "dispatch blocking on invalid reloads".  When   *)
(* the file comes to rest, a valid text is in force with no error to block *)
(* dispatch, and an invalid or missing one blocks it; the one exception is *)
(* a file that has the stamp of the version loaded, which is never looked  *)
(* into: an edit between the read and the stamp of a load, or within one   *)
(* tick of the clock, stays unseen, and an error stays when the loaded     *)
(* version is moved back.                                                  *)
InForce == file # Missing /\ file.text \in Good /\ loaded = file /\ ~error
Blocking == (file = Missing \/ file.text \in Bad) /\ (error \/ ~HasLoaded)

FileIsFollowed ==
    <>[][FALSE]_file =>
        <>[](InForce \/ Blocking \/ (file # Missing /\ file.stamp = loaded.stamp))
=============================================================================
