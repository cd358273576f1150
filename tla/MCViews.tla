------------------------------ MODULE MCViews ------------------------------
(***************************************************************************)
(* The views of a device in one run: the timers tab of its dialog, for a   *)
(* device without power readings (timers) and for a plug with its power    *)
(* tab (plug), the triggers tab (TriggerEditor) and the controls of a      *)
(* light (LightControls).  Each keeps state of its own; in a behaviour     *)
(* only the one named by running moves, the others rest where they began.  *)
(***************************************************************************)
EXTENDS Naturals, TLC

CONSTANTS Slots, Ids, PlugIds, Values, Disabled, Blank,   \* ManageDialog
          Bare, Rules, Garbage,                           \* TriggerEditor
          Tints, Top, Default, Missing, Reports,          \* LightControls
          None

ASSUME BlankIsNoId == Blank \notin Ids \cup PlugIds
ASSUME LightAssumption ==
  Top \in Nat /\ Default \in 0 .. Top /\ 0 .. Top \subseteq Reports /\ Reports \subseteq Nat /\ Missing \notin Nat

VARIABLES running,
  ready, timers, ops, manageOpen, manageTab, powerHistory, powerHistoryLoading,
  timerxTimers, timerxLoading, timerxError, timerxPending, timerEditor,
  triggers, triggerOps, triggerxDigest, activeTriggerId, triggerJson,
  triggerxLoading, triggerxPending, triggerxError, typed, overtaken,
  light, reported, draft, dragging, busy, sent, mine

dialogVars == <<ready, timers, ops, manageOpen, manageTab, powerHistory, powerHistoryLoading,
                timerxTimers, timerxLoading, timerxError, timerxPending, timerEditor>>
triggerVars == <<triggers, triggerOps, triggerxDigest, activeTriggerId, triggerJson,
                 triggerxLoading, triggerxPending, triggerxError, typed, overtaken>>
lightVars == <<light, reported, draft, dragging, busy, sent, mine>>
vars == <<running, dialogVars, triggerVars, lightVars>>

Timers == INSTANCE ManageDialog WITH IsPlugLike <- FALSE, IsSmartLight <- FALSE
Plug == INSTANCE ManageDialog WITH IsPlugLike <- TRUE, IsSmartLight <- FALSE, Ids <- PlugIds
Triggers == INSTANCE TriggerEditor WITH ops <- triggerOps
Light == INSTANCE LightControls

\* None is no trigger's text.
ASSUME NoneAssumption == None \notin [id : Ids, rule : Rules \cup {Bare}]

Init ==
  /\ running \in {"timers", "plug", "triggers", "light"}
  /\ running \in {"timers", "plug"} \/ timers = Timers!EmptyMap
  /\ IF running = "plug" THEN Plug!Init ELSE Timers!Init
  /\ running = "triggers" \/ triggers = Timers!EmptyMap
  /\ Triggers!Init
  /\ running = "light" \/ light = [f \in Light!Fields |-> 0]
  /\ Light!Init
  /\ running = "light" \/ reported = light

\* With two timers the address of the device stays known, a bound.
Next ==
  \/ running = "timers" /\ Timers!Next /\ ready' /\ UNCHANGED <<running, triggerVars, lightVars>>
  \/ running = "plug" /\ Plug!Next /\ UNCHANGED <<running, triggerVars, lightVars>>
  \/ running = "triggers" /\ Triggers!Next /\ UNCHANGED <<running, dialogVars, lightVars>>
  \/ running = "light" /\ Light!Next /\ UNCHANGED <<running, dialogVars, triggerVars>>

Spec == Init /\ [][Next]_vars

Symmetry == Permutations(Slots) \cup Permutations(Ids)

-----------------------------------------------------------------------------
\* No mark outlives what it stands for: whatever else is in flight, fails, is closed or
\* mounted anew meanwhile, a view that says saving, deleting, refreshing or busy has a
\* request under way.  What disables the saves and deletes of timers, the deletes of
\* triggers and the panels of a light is exact: there is one such request and no second.
\* Of refreshes and of the saves of triggers it is not, see LoadingComplete and
\* MarksComplete.
MarksTruthful ==
  /\ running \in {"timers", "plug"} => Timers!PendingExact /\ Timers!LoadingBacked
  /\ running = "triggers" => Triggers!MarksBacked /\ Triggers!DeletePendingExact
  /\ running = "light" => Light!BusyExact

\* A function of the timers tab that nobody overtook leaves the device's timers on the
\* screen, and one that fails leaves what the user typed.
TimersShown == Timers!SerialListShown /\ Timers!ErrorKeepsEditor

\* A function of the triggers tab that was alone leaves the device's triggers on the
\* screen.
TriggersShown == Triggers!SerialTriggersShown

\* The trigger's text is about the trigger it is labelled with, unless the user typed in
\* it or a save found another text there when it ended.
JsonMatchesActive == running = "triggers" => Triggers!JsonMatchesActive

\* A light's control shows the last report unless the user moved it since, also after
\* its panel was closed and opened again.
ControlsFollowReports == running = "light" => Light!ControlsFollowReports
=============================================================================
