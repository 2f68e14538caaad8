--------------------------- MODULE FFFMilestones ---------------------------
(***************************************************************************)
(* The milestones of an FFF print: Print::process() enters them in order   *)
(* on the worker, Print::apply() invalidates those a change of the         *)
(* configuration or of the objects may concern.                            *)
(*                                                                         *)
(* What a milestone has computed is abstracted to one bit: it is fresh as  *)
(* long as no option or milestone it looks at has changed since.           *)
(* apply() is one step: BackgroundSlicing shows that it writes only after  *)
(* the worker has been stopped.                                            *)
(***************************************************************************)
EXTENDS PrintStateBase, Naturals

CONSTANTS
  MaxObjects,          \* PrintObjects of one ModelObject: its distinct transformations
  Options,             \* the configuration options that are changed
  HasWipeTower,        \* Print::has_wipe_tower()
  DontSupportBridges,  \* the supports look at the bridges of perimeters and fills
  SeveralRegions,      \* objects have more than one region (modifiers, painting)
  SeveralExtruders,    \* regions are printed with different extruders
  Halfway              \* object steps that may leave half-made data when interrupted

Objects == 1 .. MaxObjects

ObjectSteps == {"posSlice", "posPerimeters", "posPrepareInfill", "posInfill", "posIroning",
                "posSupportSpotsSearch", "posSupportMaterial", "posEstimateCurledExtrusions"}

PrintSteps == {"psAlertWhenSupportsNeeded", "psWipeTower", "psSkirtBrim", "psGCodeExport"}

(* A milestone of object o is <<o, step>>, one of the Print <<0, step>>.   *)
Milestones == (Objects \X ObjectSteps) \cup ({0} \X PrintSteps)

OfPrint(steps) == {0} \X steps

(***************************************************************************)
(* The order of process().  Steps of one phase are made object by object.  *)
(***************************************************************************)
Phase == [posSlice |-> 1, posPerimeters |-> 1, posPrepareInfill |-> 2, posInfill |-> 2,
          posIroning |-> 3, posSupportSpotsSearch |-> 4, psAlertWhenSupportsNeeded |-> 5,
          posSupportMaterial |-> 6, posEstimateCurledExtrusions |-> 7,
          psWipeTower |-> 8, psSkirtBrim |-> 9, psGCodeExport |-> 10]

FirstOfPhase == {"posSlice", "posPrepareInfill"}

(* Mutant: make_perimeters() does not call slice() first. *)
BeforeUnchained(m, n) ==
  \/ Phase[m[2]] < Phase[n[2]]
  \/ Phase[m[2]] = Phase[n[2]] /\ m[1] < n[1]

Before(m, n) ==
  \/ Phase[m[2]] < Phase[n[2]]
  \/ Phase[m[2]] = Phase[n[2]] /\ m[1] < n[1]
  \/ Phase[m[2]] = Phase[n[2]] /\ m[1] = n[1] /\ m[2] \in FirstOfPhase /\ n[2] \notin FirstOfPhase

Earlier == [m \in Milestones |-> {n \in Milestones : Before(n, m)}]

(***************************************************************************)
(* What the computation of a step looks at: steps of its own object, for   *)
(* those of the Print steps of all objects and of the Print.               *)
(***************************************************************************)
StepReads ==
  [posSlice                    |-> {},
   posPerimeters               |-> {"posSlice"},
   posPrepareInfill            |-> {"posSlice", "posPerimeters"},
   posInfill                   |-> {"posPrepareInfill"},
   posIroning                  |-> {"posPrepareInfill", "posInfill"},
   posSupportSpotsSearch       |-> {"posPerimeters", "posInfill"},
   posSupportMaterial          |-> {"posSlice"} \cup
       IF DontSupportBridges THEN {"posPerimeters", "posPrepareInfill", "posInfill"} ELSE {},
   posEstimateCurledExtrusions |-> {"posPerimeters", "posSupportMaterial"},
   psAlertWhenSupportsNeeded   |-> {"posSupportSpotsSearch"},
   psWipeTower                 |-> {"posPerimeters", "posInfill", "posIroning", "posSupportMaterial"},
   psSkirtBrim                 |-> {"posSlice", "posSupportMaterial"} \cup
                                   IF HasWipeTower THEN {"psWipeTower"} ELSE {},
   psGCodeExport               |-> ObjectSteps \cup {"psWipeTower", "psSkirtBrim"}]

Inputs ==
  [m \in Milestones |->
     {n \in Milestones : n[2] \in StepReads[m[2]] /\ (m[1] = 0 \/ n[1] \in {m[1], 0})}]

(***************************************************************************)
(* The tables of apply(): what an option invalidates, and what really      *)
(* looks at it.  AllSteps: the last branch, for an option in no row.       *)
(* fill_density is changed between 0 and 100 %, fill_density_to_limit is   *)
(* its change from or to one of them.                                      *)
(***************************************************************************)
AllSteps == ObjectSteps \cup PrintSteps

Row ==
  [layer_height                   |-> {"posSlice"},
   external_perimeters_first      |-> {"posPerimeters"},
   fill_density                   |-> {"posPrepareInfill"},
   fill_density_to_limit          |-> {"posPerimeters", "posPrepareInfill"},
   top_solid_layers               |-> {"posPrepareInfill"},
   top_fill_pattern               |-> {"posInfill"},
   fill_angle                     |-> {"posInfill"},
   ironing                        |-> AllSteps,
   thick_bridges                  |-> {"posPerimeters", "posSupportMaterial"},
   support_material_threshold     |-> {"posSupportMaterial"},
   avoid_crossing_curled_overhangs |-> {"posEstimateCurledExtrusions"},
   filament_soluble               |-> {"psWipeTower", "posSupportMaterial"},
   first_layer_extrusion_width    |-> {"posPerimeters", "posInfill", "posSupportMaterial", "psSkirtBrim"},
   skirts                         |-> {"psSkirtBrim"},
   wipe_tower_width               |-> {"psWipeTower", "psSkirtBrim"},
   wipe_into_infill               |-> {"psWipeTower", "psGCodeExport"},
   perimeter_speed                |-> {"psGCodeExport"}]

(* group_fills() serves make_fills() and, for the anchors of the bridges   *)
(* over the infill, the preparation of the infill.                         *)
GroupFills == {"posPrepareInfill", "posInfill"}

(* The widths of the first layer; slicing looks at the width for the       *)
(* compensation of the elephant foot.                                      *)
FirstLayerFlow ==
  {"posSlice", "posPerimeters", "posPrepareInfill", "posInfill", "posSupportMaterial", "psSkirtBrim", "psGCodeExport"}

(* With several regions, perimeters are made together for those alike, and *)
(* slicing merges the regions that print anything.                         *)
ComparesRegions == IF SeveralRegions THEN {"posPerimeters"} ELSE {}
MergesRegions == IF SeveralRegions THEN {"posSlice"} ELSE {}

(* What depends on which extruders an object is printed with.              *)
ObjectExtruders ==
  IF SeveralExtruders THEN {"posSlice", "posSupportMaterial", "psWipeTower", "psSkirtBrim", "psGCodeExport"} ELSE {}

OptionReaders ==
  [layer_height                   |-> {"posSlice", "posIroning", "posSupportMaterial", "psGCodeExport"} \cup GroupFills,
   external_perimeters_first      |-> {"posPerimeters", "psGCodeExport"},
   fill_density                   |-> {"posIroning"} \cup GroupFills \cup ComparesRegions,
   fill_density_to_limit          |-> {"posPerimeters", "posIroning", "psGCodeExport"} \cup GroupFills
                                      \cup MergesRegions \cup ObjectExtruders,
   top_solid_layers               |-> {"posPrepareInfill", "posIroning"} \cup MergesRegions \cup ObjectExtruders,
   top_fill_pattern               |-> GroupFills,
   fill_angle                     |-> {"posIroning"} \cup GroupFills,
   ironing                        |-> {"posIroning"},
   thick_bridges                  |-> {"posPerimeters", "posSupportMaterial"} \cup GroupFills,
   support_material_threshold     |-> {"posSupportMaterial"},
   avoid_crossing_curled_overhangs |-> {"posEstimateCurledExtrusions", "psGCodeExport"},
   filament_soluble               |-> {"psWipeTower", "posSupportMaterial", "psGCodeExport"},
   first_layer_extrusion_width    |-> FirstLayerFlow,
   skirts                         |-> {"psSkirtBrim", "psGCodeExport"},
   wipe_tower_width               |-> {"psWipeTower", "psSkirtBrim", "psGCodeExport"},
   wipe_into_infill               |-> {"psWipeTower", "psGCodeExport"},
   perimeter_speed                |-> {"psGCodeExport"} \cup ComparesRegions]

ASSUME MilestonesAssumption ==
  /\ MaxObjects \in Nat \ {0}
  /\ Options \subseteq DOMAIN Row
  /\ HasWipeTower \in BOOLEAN
  /\ DontSupportBridges \in BOOLEAN
  /\ SeveralRegions \in BOOLEAN
  /\ SeveralExtruders \in BOOLEAN
  /\ Halfway \subseteq {"posPrepareInfill", "posIroning"}

-----------------------------------------------------------------------------
(* What PrintObject::invalidate_step() and Print::invalidate_step() drag   *)
(* along; neither is recursive.                                            *)
DependentObjectSteps ==
  [posSlice                    |-> ObjectSteps,
   posPerimeters               |-> {"posPrepareInfill", "posInfill", "posIroning",
                                    "posSupportSpotsSearch", "posEstimateCurledExtrusions"},
   posPrepareInfill            |-> {"posInfill", "posIroning", "posSupportSpotsSearch"},
   posInfill                   |-> {"posIroning", "posSupportSpotsSearch"},
   posIroning                  |-> {},
   posSupportSpotsSearch       |-> {},
   posSupportMaterial          |-> {"posEstimateCurledExtrusions"},
   posEstimateCurledExtrusions |-> {}]

(* Mutant: the skirt does not follow the supports. *)
DependentPrintStepsNoSupport(s) ==
  {"psAlertWhenSupportsNeeded", "psWipeTower", "psGCodeExport"} \cup
  IF s \in {"posPerimeters", "posInfill", "posSlice"} THEN {"psSkirtBrim"} ELSE {}

DependentPrintSteps(s) ==
  {"psAlertWhenSupportsNeeded", "psWipeTower", "psGCodeExport"} \cup
  IF s \in {"posPerimeters", "posInfill", "posSlice", "posSupportMaterial"} THEN {"psSkirtBrim"} ELSE {}

(* Mutant: an object step takes no other object step along. *)
CascadeShallow(s) ==
  {s} \cup IF s \in PrintSteps THEN {"psGCodeExport"} ELSE DependentPrintSteps(s)

(* All that is invalidated with step s.  An option is shared by the        *)
(* objects of the ModelObject, and to invalidate what does not exist yet   *)
(* changes nothing.                                                        *)
Cascade(s) ==
  {s} \cup IF s \in PrintSteps THEN {"psGCodeExport"}
                              ELSE DependentObjectSteps[s] \cup DependentPrintSteps(s)

OptionInvalidates == [k \in Options |-> {m \in Milestones : \E s \in Row[k] : m[2] \in Cascade(s)}]

(* The row of option k reaches every step that looks at it.                *)
Covered(k) == \A t \in OptionReaders[k] : \E s \in Row[k] : t \in Cascade(s)

ReadersOfOption == [k \in Options |-> {m \in Milestones : m[2] \in OptionReaders[k]}]

-----------------------------------------------------------------------------
VARIABLES
  objs,     \* m_objects
  step,     \* the state of every milestone
  fresh,    \* milestones entered whose inputs have not changed since
  points,   \* generated_support_points, shared by the objects
  split,    \* objects whose slices are split by type
  typed,    \* objects whose m_typed_slices says so
  ironed,   \* object |-> ironing passes in its fills, 2 standing for more
  searching, \* the worker is inside SupportSpotsGenerator::full_search()
  running   \* the worker is inside process() or export_gcode()

vars == <<objs, step, fresh, points, split, typed, ironed, searching, running>>

Present(m) == m[1] = 0 \/ m[1] \in objs

Active == {m \in Milestones : step[m] = "Started"}

TypeOK ==
  /\ objs \subseteq Objects
  /\ step \in [Milestones -> StepState]
  /\ fresh \subseteq Milestones
  /\ points \in {"none", "current", "outdated"}
  /\ split \subseteq Objects
  /\ typed \subseteq Objects
  /\ ironed \in [Objects -> 0 .. 2]
  /\ searching \in BOOLEAN
  /\ running \in BOOLEAN
  /\ Active # {} => running

Init ==
  /\ objs = {}
  /\ step = [m \in Milestones |-> "Fresh"]
  /\ fresh = {}
  /\ points = "none"
  /\ split = {}
  /\ typed = {}
  /\ ironed = [o \in Objects |-> 0]
  /\ searching = FALSE
  /\ running = FALSE

(***************************************************************************)
(* Print::cleanup() for milestone states st: the dirty infills and         *)
(* supports are released, and the support points unless a present object   *)
(* still holds them valid.                                                 *)
(***************************************************************************)
(* is_shared_print_object_step_valid_unguarded(). *)
PointsKept(st, os) == \E o \in os : st[<<o, "posSupportSpotsSearch">>] = "Done"

Releases(st, m) == m[2] \in {"posInfill", "posSupportMaterial"} /\ IsDirty(st[m])

Cleanup(st, os, pts, irons) ==
  /\ step' = [m \in Milestones |-> IF m[1] \in os /\ Releases(st, m) THEN QueryResetDirty(st[m]) ELSE st[m]]
  /\ ironed' = [o \in Objects |-> IF o \in os /\ Releases(st, <<o, "posInfill">>) THEN 0 ELSE irons[o]]
  /\ points' = IF PointsKept(st, os) THEN pts ELSE "none"

(* What the milestone the worker is thrown out of may have half made.      *)
Abandoned(stops) == SUBSET {m \in Active : stops /\ m[2] \in Halfway}

IronedAfter(half) ==
  [o \in Objects |-> IF <<o, "posIroning">> \in half /\ ironed[o] < 2 THEN ironed[o] + 1 ELSE ironed[o]]

SplitAfter(half) == split \cup {o \in Objects : <<o, "posPrepareInfill">> \in half}

(***************************************************************************)
(* The milestones inv are invalidated while the objects become os and what *)
(* the milestones changed look at is another; if the worker stops, what it *)
(* was doing is Canceled and may be left half done.  Then the support      *)
(* points are pts, and cleanup() runs.                                     *)
(***************************************************************************)
Settle(inv, os, stops, pts, changed) ==
  LET st == [m \in Milestones |-> IF m \in inv THEN TryInvalidate(step[m]) ELSE step[m]]
      thrown == [m \in Milestones |-> IF stops THEN MarkCanceled(st[m]) ELSE st[m]]
      kept == [m \in Milestones |-> IF m[1] \in os \cup {0} THEN thrown[m] ELSE "Fresh"]
  IN \E half \in Abandoned(stops) :
       /\ Cleanup(kept, os, pts, IronedAfter(half))
       /\ split' = SplitAfter(half)
       /\ fresh' = {m \in fresh \ changed : Entered(step'[m])}
       /\ objs' = os
       /\ running' = (running /\ ~stops)
       /\ searching' = (searching /\ ~stops)
       /\ UNCHANGED typed

EnteredAny(inv) == \E m \in inv : Entered(step[m])

(* The points are those of the slices, perimeters and fills they were      *)
(* searched on.                                                            *)
SearchInputs == {"posSlice", "posPerimeters", "posPrepareInfill", "posInfill", "posSupportSpotsSearch"}

ApplyOption(k) ==
  LET inv == OptionInvalidates[k]
  IN Settle(inv, objs, running /\ EnteredAny(inv),
           IF points = "current" /\ OptionReaders[k] \cap SearchInputs # {} THEN "outdated" ELSE points,
           ReadersOfOption[k])

(* PrintObject::set_instances(): the second call of the || is made only if *)
(* the first one has found nothing to invalidate.                          *)
ApplyInstances(equal_length) ==
  LET first  == OfPrint({"psSkirtBrim", "psGCodeExport"})
      second == IF ~equal_length /\ ~EnteredAny(first) THEN OfPrint({"psWipeTower"}) ELSE {}
      inv    == first \cup second
  IN /\ objs # {}
     /\ Settle(inv, objs, running /\ EnteredAny(inv), points,
              first \cup IF HasWipeTower /\ ~equal_length THEN OfPrint({"psWipeTower"}) ELSE {})

(* Objects are added, removed or replaced.  The support points live as     *)
(* long as an object of the ModelObject does.                              *)
ApplyObjects(os) ==
  LET inv == {0} \X PrintSteps
  IN /\ os # objs
     /\ Settle(inv, os, running, IF os = {} THEN "none" ELSE points,
              {m \in Milestones : m[1] \notin objs \cap os})

-----------------------------------------------------------------------------
(* BackgroundSlicingProcess::start(): not for an empty print. *)
Start ==
  /\ ~running
  /\ objs # {}
  /\ running' = TRUE
  /\ UNCHANGED <<objs, step, fresh, points, split, typed, ironed, searching>>

(***************************************************************************)
(* set_started() of the first milestone that is not Done, and what the     *)
(* step does first: slicing drops all layers, perimeters and infill        *)
(* preparation go back to the untyped slices, if they are known to be      *)
(* typed, and new fills replace the old ones with their ironing.           *)
(***************************************************************************)
Restores(m) ==
  \/ m[2] = "posSlice"
  \/ m[2] \in {"posPerimeters", "posPrepareInfill"} /\ m[1] \in typed

ClearsFills(m) ==
  \/ m[2] \in {"posSlice", "posInfill"}
  \/ m[2] = "posPerimeters" /\ m[1] \in typed

SetStarted(m) ==
  /\ running
  /\ Present(m)
  /\ step[m] # "Done"
  /\ \A n \in Earlier[m] : Present(n) => step[n] = "Done"
  /\ Active = {}
  /\ step' = [step EXCEPT ![m] = "Started"]
  /\ fresh' = {n \in fresh \cup {m} : m \notin Inputs[n]}
  /\ split' = IF Restores(m) THEN split \ {m[1]} ELSE split
  /\ typed' = IF m[2] \in {"posSlice", "posPerimeters"} THEN typed \ {m[1]} ELSE typed
  /\ ironed' = IF ClearsFills(m) THEN [ironed EXCEPT ![m[1]] = 0] ELSE ironed
  /\ searching' = (m[2] = "posSupportSpotsSearch" /\ points = "none")
  /\ UNCHANGED <<objs, points, running>>

(* generate_support_spots(): the first object stores the points for all.   *)
StorePoints ==
  /\ searching
  /\ points' = "current"
  /\ searching' = FALSE
  /\ UNCHANGED <<objs, step, fresh, split, typed, ironed, running>>

(* What the step has made does not follow from its inputs: perimeters or   *)
(* surface types of slices that were split already, fills ironed twice,    *)
(* support points of other perimeters.                                     *)
Spoiled(m) ==
  \/ m[2] \in {"posPerimeters", "posPrepareInfill"} /\ m[1] \in split
  \/ m[2] = "posIroning" /\ ironed[m[1]] # 0
  \/ m[2] = "posSupportSpotsSearch" /\ points = "outdated"

SetDone(m) ==
  /\ ~searching
  /\ step' = [step EXCEPT ![m] = "Done"]
  /\ fresh' = IF Spoiled(m) \/ \E n \in Inputs[m] : Present(n) /\ n \notin fresh THEN fresh \ {m} ELSE fresh
  /\ split' = IF m[2] = "posPrepareInfill" THEN split \cup {m[1]} ELSE split
  /\ typed' = IF m[2] = "posPrepareInfill" THEN typed \cup {m[1]} ELSE typed
  /\ ironed' = IF m[2] = "posIroning" THEN [ironed EXCEPT ![m[1]] = IF @ < 2 THEN @ + 1 ELSE @] ELSE ironed
  /\ UNCHANGED <<objs, points, searching, running>>

(* The worker has done everything, or is stopped by the user, or throws:   *)
(* finalize() and cleanup() on the worker.                                 *)
EndRun ==
  /\ running
  /\ Active = {} => \A m \in Milestones : Present(m) => step[m] = "Done"
  /\ Settle({}, objs, TRUE, points, {})

Next ==
  \/ \E k \in Options : ApplyOption(k)
  \/ \E equal_length \in BOOLEAN : ApplyInstances(equal_length)
  \/ \E os \in SUBSET Objects : ApplyObjects(os)
  \/ Start
  \/ \E m \in Milestones : SetStarted(m)
  \/ \E m \in Active : SetDone(m)
  \/ StorePoints
  \/ EndRun

Spec == Init /\ [][Next]_vars

-----------------------------------------------------------------------------
(* A milestone that counts as valid was computed from the options, objects *)
(* and milestones as they are now: nothing the G-code is made of is left   *)
(* over from an earlier configuration.                                     *)
DoneIsFresh == \A m \in Milestones : Present(m) /\ step[m] = "Done" => m \in fresh

(* A valid milestone rests on valid ones: no invalidation stops half way   *)
(* up the chain of what depends on what.                                   *)
PrerequisitesDone ==
  \A m \in Milestones :
    Present(m) /\ step[m] = "Done" => \A n \in Inputs[m] : Present(n) => step[n] = "Done"

(* While the worker is inside a milestone, neither an option nor a         *)
(* milestone it looks at changes: apply() has stopped it first.            *)
ActiveInputsStable ==
  \A m \in Active :
    /\ running /\ Present(m) /\ m \in fresh
    /\ \A n \in Inputs[m] : Present(n) => step[n] = "Done" /\ n \in fresh
=============================================================================
