------------------------ MODULE FFFMilestones_proofs ------------------------
(***************************************************************************)
(* The milestones of an FFF print stay consistent with what they were      *)
(* computed from, for any number of objects, for a print without wipe      *)
(* tower whose supports do not look at bridges and whose interrupted steps *)
(* leave no half-made data.  Valid milestones rest on valid ones whatever  *)
(* options are changed; that they are of the present configuration takes   *)
(* options whose rows reach the steps that look at them, and which options *)
(* these are is proved entry by entry.                                     *)
(***************************************************************************)
EXTENDS FFFMilestones, Integers, TLAPS

Plain == ~HasWipeTower /\ ~DontSupportBridges /\ Halfway = {}

AllCovered == \A k \in Options : Covered(k)

StepNames == ObjectSteps \cup PrintSteps

-----------------------------------------------------------------------------
(* The tables, entry by entry.                                             *)
LEMMA PhaseTable ==
  /\ Phase["posSlice"] = 1 /\ Phase["posPerimeters"] = 1
  /\ Phase["posPrepareInfill"] = 2 /\ Phase["posInfill"] = 2
  /\ Phase["posIroning"] = 3 /\ Phase["posSupportSpotsSearch"] = 4
  /\ Phase["psAlertWhenSupportsNeeded"] = 5 /\ Phase["posSupportMaterial"] = 6
  /\ Phase["posEstimateCurledExtrusions"] = 7 /\ Phase["psWipeTower"] = 8
  /\ Phase["psSkirtBrim"] = 9 /\ Phase["psGCodeExport"] = 10
  BY DEF Phase

LEMMA ReadsTable ==
  /\ StepReads["posSlice"] = {}
  /\ StepReads["posPerimeters"] = {"posSlice"}
  /\ StepReads["posPrepareInfill"] = {"posSlice", "posPerimeters"}
  /\ StepReads["posInfill"] = {"posPrepareInfill"}
  /\ StepReads["posIroning"] = {"posPrepareInfill", "posInfill"}
  /\ StepReads["posSupportSpotsSearch"] = {"posPerimeters", "posInfill"}
  /\ StepReads["posSupportMaterial"] \subseteq {"posSlice", "posPerimeters", "posPrepareInfill", "posInfill"}
  /\ StepReads["posEstimateCurledExtrusions"] = {"posPerimeters", "posSupportMaterial"}
  /\ StepReads["psAlertWhenSupportsNeeded"] = {"posSupportSpotsSearch"}
  /\ StepReads["psWipeTower"] = {"posPerimeters", "posInfill", "posIroning", "posSupportMaterial"}
  /\ StepReads["psSkirtBrim"] \subseteq {"posSlice", "posSupportMaterial", "psWipeTower"}
  /\ StepReads["psGCodeExport"] = ObjectSteps \cup {"psWipeTower", "psSkirtBrim"}
  BY DEF StepReads

LEMMA PlainReads ==
  ASSUME Plain
  PROVE  /\ StepReads["posSupportMaterial"] = {"posSlice"}
         /\ StepReads["psSkirtBrim"] = {"posSlice", "posSupportMaterial"}
  BY DEF StepReads, Plain

LEMMA DependentsTable ==
  /\ DependentObjectSteps["posSlice"] = ObjectSteps
  /\ DependentObjectSteps["posPerimeters"] =
       {"posPrepareInfill", "posInfill", "posIroning", "posSupportSpotsSearch", "posEstimateCurledExtrusions"}
  /\ DependentObjectSteps["posPrepareInfill"] = {"posInfill", "posIroning", "posSupportSpotsSearch"}
  /\ DependentObjectSteps["posInfill"] = {"posIroning", "posSupportSpotsSearch"}
  /\ DependentObjectSteps["posIroning"] = {}
  /\ DependentObjectSteps["posSupportSpotsSearch"] = {}
  /\ DependentObjectSteps["posSupportMaterial"] = {"posEstimateCurledExtrusions"}
  /\ DependentObjectSteps["posEstimateCurledExtrusions"] = {}
  BY DEF DependentObjectSteps

-----------------------------------------------------------------------------
LEMMA MilestoneParts ==
  ASSUME NEW m \in Milestones
  PROVE  /\ m = <<m[1], m[2]>>
         /\ m[2] \in StepNames
         /\ m[1] \in Objects => m[2] \in ObjectSteps
         /\ m[1] = 0 => m[2] \in PrintSteps
         /\ m[1] = 0 \/ m[1] \in Objects
         /\ 0 \notin Objects
  BY DEF Milestones, Objects, StepNames

LEMMA ReadsBefore ==
  ASSUME NEW s \in StepNames, NEW t \in StepReads[s]
  PROVE  /\ t \in StepNames
         /\ t # s
         /\ \/ Phase[t] < Phase[s]
            \/ Phase[t] = Phase[s] /\ t \in FirstOfPhase /\ s \notin FirstOfPhase
  BY PhaseTable, ReadsTable DEF StepNames, ObjectSteps, PrintSteps, FirstOfPhase

(* process() makes what a milestone looks at before the milestone.         *)
LEMMA InputsEarlier ==
  ASSUME NEW m \in Milestones
  PROVE  Inputs[m] \subseteq Earlier[m] /\ m \notin Earlier[m]
  <1>1. ASSUME NEW n \in Inputs[m]
        PROVE  n \in Earlier[m]
    <2>1. n \in Milestones /\ n[2] \in StepReads[m[2]] /\ (m[1] = 0 \/ n[1] \in {m[1], 0})
      BY <1>1 DEF Inputs
    <2>2. m[2] \in StepNames
      BY MilestoneParts
    <2>3. \/ Phase[n[2]] < Phase[m[2]]
          \/ Phase[n[2]] = Phase[m[2]] /\ n[2] \in FirstOfPhase /\ m[2] \notin FirstOfPhase
      BY <2>1, <2>2, ReadsBefore
    <2>4. CASE Phase[n[2]] < Phase[m[2]]
      BY <2>1, <2>4 DEF Earlier, Before
    <2>5. CASE Phase[n[2]] = Phase[m[2]] /\ n[2] \in FirstOfPhase /\ m[2] \notin FirstOfPhase
      <3>1. m[2] \in {"posPerimeters", "posInfill"}
        BY <2>2, <2>5, PhaseTable DEF StepNames, ObjectSteps, PrintSteps, FirstOfPhase
      <3>2. m[1] \in Objects /\ n[1] \in Objects
        BY <3>1, <2>1, <2>5, MilestoneParts DEF PrintSteps, FirstOfPhase
      <3>3. n[1] = m[1]
        BY <3>2, <2>1, MilestoneParts
      <3> QED BY <2>1, <2>5, <3>3 DEF Earlier, Before
    <2> QED BY <2>3, <2>4, <2>5
  <1>2. m \notin Earlier[m]
    <2>1. m[2] \in StepNames /\ m[1] \in Int
      BY MilestoneParts DEF Objects
    <2>2. Phase[m[2]] \in Int
      BY <2>1, PhaseTable DEF StepNames, ObjectSteps, PrintSteps
    <2> QED BY <2>1, <2>2 DEF Earlier, Before
  <1> QED BY <1>1, <1>2

(* What depends on an invalidated step is invalidated with it.             *)
LEMMA CascadeClosed ==
  ASSUME Plain,
         NEW s \in StepNames, NEW u \in StepNames,
         NEW t \in StepReads[u], t \in Cascade(s)
  PROVE  u \in Cascade(s)
  <1> USE DEF Cascade, DependentPrintSteps, StepNames, ObjectSteps, PrintSteps
  <1>1. CASE s \in PrintSteps
    BY <1>1, ReadsTable, PlainReads
  <1>2. CASE s = "posSlice"
    BY <1>2, ReadsTable, PlainReads, DependentsTable
  <1>3. CASE s = "posPerimeters"
    BY <1>3, ReadsTable, PlainReads, DependentsTable
  <1>4. CASE s = "posPrepareInfill"
    BY <1>4, ReadsTable, PlainReads, DependentsTable
  <1>5. CASE s = "posInfill"
    BY <1>5, ReadsTable, PlainReads, DependentsTable
  <1>6. CASE s \in {"posIroning", "posSupportSpotsSearch", "posEstimateCurledExtrusions"}
    BY <1>6, ReadsTable, PlainReads, DependentsTable
  <1>7. CASE s = "posSupportMaterial"
    BY <1>7, ReadsTable, PlainReads, DependentsTable
  <1> QED BY <1>1, <1>2, <1>3, <1>4, <1>5, <1>6, <1>7

-----------------------------------------------------------------------------
LEMMA RowTable ==
  /\ Row["layer_height"] = {"posSlice"}
  /\ Row["external_perimeters_first"] = {"posPerimeters"}
  /\ Row["fill_density"] = {"posPrepareInfill"}
  /\ Row["fill_density_to_limit"] = {"posPerimeters", "posPrepareInfill"}
  /\ Row["top_solid_layers"] = {"posPrepareInfill"}
  /\ Row["top_fill_pattern"] = {"posInfill"}
  /\ Row["fill_angle"] = {"posInfill"}
  /\ Row["ironing"] = AllSteps
  /\ Row["thick_bridges"] = {"posPerimeters", "posSupportMaterial"}
  /\ Row["support_material_threshold"] = {"posSupportMaterial"}
  /\ Row["avoid_crossing_curled_overhangs"] = {"posEstimateCurledExtrusions"}
  /\ Row["filament_soluble"] = {"psWipeTower", "posSupportMaterial"}
  /\ Row["first_layer_extrusion_width"] = {"posPerimeters", "posInfill", "posSupportMaterial", "psSkirtBrim"}
  /\ Row["skirts"] = {"psSkirtBrim"}
  /\ Row["wipe_tower_width"] = {"psWipeTower", "psSkirtBrim"}
  /\ Row["wipe_into_infill"] = {"psWipeTower", "psGCodeExport"}
  /\ Row["perimeter_speed"] = {"psGCodeExport"}
  BY DEF Row

OptionNames ==
  {"layer_height", "external_perimeters_first", "fill_density", "fill_density_to_limit", "top_solid_layers",
   "top_fill_pattern", "fill_angle", "ironing", "thick_bridges", "support_material_threshold",
   "avoid_crossing_curled_overhangs", "filament_soluble", "first_layer_extrusion_width", "skirts",
   "wipe_tower_width", "wipe_into_infill", "perimeter_speed"}

LEMMA KnownOptions == DOMAIN Row = OptionNames
  BY DEF Row, OptionNames

(* What the steps look at where objects have one region, printed with one  *)
(* extruder.                                                               *)
LEMMA ReadersTable ==
  ASSUME ~SeveralRegions, ~SeveralExtruders
  PROVE  /\ OptionReaders["layer_height"] \subseteq ObjectSteps \cup {"psGCodeExport"}
         /\ OptionReaders["external_perimeters_first"] = {"posPerimeters", "psGCodeExport"}
         /\ OptionReaders["fill_density"] = {"posPrepareInfill", "posInfill", "posIroning"}
         /\ OptionReaders["fill_density_to_limit"] =
              {"posPerimeters", "posPrepareInfill", "posInfill", "posIroning", "psGCodeExport"}
         /\ OptionReaders["top_solid_layers"] = {"posPrepareInfill", "posIroning"}
         /\ OptionReaders["ironing"] = {"posIroning"}
         /\ OptionReaders["thick_bridges"] = {"posPerimeters", "posPrepareInfill", "posInfill", "posSupportMaterial"}
         /\ OptionReaders["support_material_threshold"] = {"posSupportMaterial"}
         /\ OptionReaders["avoid_crossing_curled_overhangs"] = {"posEstimateCurledExtrusions", "psGCodeExport"}
         /\ OptionReaders["filament_soluble"] = {"psWipeTower", "posSupportMaterial", "psGCodeExport"}
         /\ OptionReaders["skirts"] = {"psSkirtBrim", "psGCodeExport"}
         /\ OptionReaders["wipe_tower_width"] = {"psWipeTower", "psSkirtBrim", "psGCodeExport"}
         /\ OptionReaders["wipe_into_infill"] = {"psWipeTower", "psGCodeExport"}
         /\ OptionReaders["perimeter_speed"] = {"psGCodeExport"}
  <1> USE DEF GroupFills, ComparesRegions, MergesRegions, ObjectExtruders
  <1>1. OptionReaders["layer_height"] \subseteq ObjectSteps \cup {"psGCodeExport"}
    BY DEF OptionReaders, ObjectSteps
  <1>2. /\ OptionReaders["fill_density"] = {"posPrepareInfill", "posInfill", "posIroning"}
        /\ OptionReaders["fill_density_to_limit"] =
             {"posPerimeters", "posPrepareInfill", "posInfill", "posIroning", "psGCodeExport"}
    BY DEF OptionReaders
  <1>3. /\ OptionReaders["top_solid_layers"] = {"posPrepareInfill", "posIroning"}
        /\ OptionReaders["thick_bridges"] = {"posPerimeters", "posPrepareInfill", "posInfill", "posSupportMaterial"}
    BY DEF OptionReaders
  <1> QED BY <1>1, <1>2, <1>3 DEF OptionReaders

(* The options whose row misses a step that looks at them.                 *)
Missed == {"fill_angle", "top_fill_pattern", "first_layer_extrusion_width"}

(* The rows of all the other options reach every step that looks at them,  *)
(* where objects have one region, printed with one extruder.               *)
THEOREM CoveredOptions ==
  ASSUME ~SeveralRegions, ~SeveralExtruders, NEW k \in DOMAIN Row \ Missed
  PROVE  Covered(k)
  <1> USE DEF Covered, Cascade, DependentPrintSteps, ObjectSteps, PrintSteps
  <1>1. Covered("layer_height")
    BY RowTable, ReadersTable, DependentsTable
  <1>2. Covered("external_perimeters_first")
    BY RowTable, ReadersTable, DependentsTable
  <1>3. Covered("fill_density")
    BY RowTable, ReadersTable, DependentsTable
  <1>4. Covered("fill_density_to_limit")
    BY RowTable, ReadersTable, DependentsTable
  <1>5. Covered("top_solid_layers")
    BY RowTable, ReadersTable, DependentsTable
  <1>6. Covered("ironing")
    BY RowTable, ReadersTable DEF AllSteps
  <1>7. Covered("thick_bridges")
    BY RowTable, ReadersTable, DependentsTable
  <1>8. Covered("support_material_threshold") /\ Covered("avoid_crossing_curled_overhangs")
    BY RowTable, ReadersTable, DependentsTable
  <1>9. Covered("filament_soluble")
    BY RowTable, ReadersTable, DependentsTable
  <1>10. Covered("skirts") /\ Covered("wipe_tower_width") /\ Covered("wipe_into_infill") /\ Covered("perimeter_speed")
    BY RowTable, ReadersTable
  <1> HIDE DEF Covered
  <1> QED BY <1>1, <1>2, <1>3, <1>4, <1>5, <1>6, <1>7, <1>8, <1>9, <1>10, KnownOptions DEF OptionNames, Missed

(* The preparation of the infill looks at the angle and at the patterns,   *)
(* and slicing at the width of the first layer; their rows do not go back  *)
(* that far.  With several regions the perimeters look at the speed of the *)
(* perimeters, which only makes the G-code anew.                           *)
THEOREM UncoveredOptions ==
  /\ \A k \in Missed : ~Covered(k)
  /\ SeveralRegions => ~Covered("perimeter_speed")
  <1> USE DEF Covered, Cascade, DependentPrintSteps, ObjectSteps, PrintSteps
  <1>1. "posPrepareInfill" \in OptionReaders["fill_angle"] \cap OptionReaders["top_fill_pattern"]
    BY DEF OptionReaders, GroupFills
  <1>2. "posSlice" \in OptionReaders["first_layer_extrusion_width"]
    BY DEF OptionReaders, FirstLayerFlow
  <1>3. ~Covered("fill_angle") /\ ~Covered("top_fill_pattern")
    BY <1>1, RowTable, DependentsTable
  <1>4. ~Covered("first_layer_extrusion_width")
    BY <1>2, RowTable, DependentsTable
  <1>5. ASSUME SeveralRegions
        PROVE  ~Covered("perimeter_speed")
    <2>1. "posPerimeters" \in OptionReaders["perimeter_speed"]
      BY <1>5 DEF OptionReaders, ComparesRegions
    <2> QED BY <2>1, RowTable
  <1> HIDE DEF Covered
  <1> QED BY <1>3, <1>4, <1>5 DEF Missed

(* A row of the table names steps, and the ironing only with the infill it *)
(* irons.                                                                  *)
LEMMA RowNames ==
  ASSUME NEW k \in Options
  PROVE  /\ Row[k] \subseteq StepNames
         /\ "posIroning" \in Row[k] => "posInfill" \in Row[k]
  <1>1. k \in OptionNames
    BY MilestonesAssumption, KnownOptions
  <1>2. Row[k] \subseteq StepNames
    BY <1>1, RowTable DEF OptionNames, StepNames, ObjectSteps, PrintSteps, AllSteps
  <1>3. "posIroning" \in Row[k] => "posInfill" \in Row[k]
    BY <1>1, RowTable DEF OptionNames, ObjectSteps, AllSteps
  <1> QED BY <1>2, <1>3

-----------------------------------------------------------------------------
(* What the inductive invariant adds to the properties.                    *)
AbsentFresh == \A m \in Milestones : ~Present(m) => step[m] = "Fresh"

(* Slices that are split are known to be, and a step that begins with them *)
(* has restored them.                                                      *)
SlicesKnown ==
  /\ split \subseteq typed
  /\ \A m \in Active : m[2] \in {"posPerimeters", "posPrepareInfill"} => m[1] \notin split

IroningPending ==
  \A o \in Objects :
    step[<<o, "posInfill">>] \in {"Started", "Done"} /\ step[<<o, "posIroning">>] # "Done"
      => ironed[o] = 0

ActiveInputsDone ==
  \A m \in Active :
    /\ running /\ Present(m)
    /\ \A n \in Inputs[m] : Present(n) => step[n] = "Done"

MInv ==
  /\ TypeOK /\ AbsentFresh
  /\ PrerequisitesDone /\ ActiveInputsDone
  /\ SlicesKnown /\ IroningPending
  /\ AllCovered => DoneIsFresh /\ ActiveInputsStable /\ points # "outdated"

LEMMA MilestoneForms ==
  ASSUME NEW o \in Objects
  PROVE  /\ <<o, "posInfill">> \in Milestones
         /\ <<o, "posIroning">> \in Milestones
         /\ <<o, "posSupportSpotsSearch">> \in Milestones
         /\ <<o, "posPerimeters">> \in Milestones
  BY DEF Milestones, ObjectSteps

-----------------------------------------------------------------------------
(* What one invalidation makes of the milestones.                          *)
StepsAfter(inv, os, stops) ==
  \A m \in Milestones :
    /\ step'[m] \in StepState
    /\ step'[m] = "Done" <=> step[m] = "Done" /\ m \notin inv /\ m[1] \in os \cup {0}
    /\ step'[m] = "Started" <=> step[m] = "Started" /\ m \notin inv /\ ~stops /\ m[1] \in os \cup {0}
    /\ m[1] \notin os \cup {0} => step'[m] = "Fresh"

LEMMA SettledStep ==
  ASSUME TypeOK,
         NEW inv, NEW os, NEW stops, NEW pts, NEW changed,
         Settle(inv, os, stops, pts, changed)
  PROVE  StepsAfter(inv, os, stops)
  <1> SUFFICES ASSUME NEW m \in Milestones
               PROVE  /\ step'[m] \in StepState
                      /\ step'[m] = "Done" <=> step[m] = "Done" /\ m \notin inv /\ m[1] \in os \cup {0}
                      /\ step'[m] = "Started" <=> step[m] = "Started" /\ m \notin inv /\ ~stops /\ m[1] \in os \cup {0}
                      /\ m[1] \notin os \cup {0} => step'[m] = "Fresh"
    BY DEF StepsAfter
  <1> DEFINE st == [n \in Milestones |-> IF n \in inv THEN TryInvalidate(step[n]) ELSE step[n]]
             thrown == [n \in Milestones |-> IF stops THEN MarkCanceled(st[n]) ELSE st[n]]
             kept == [n \in Milestones |-> IF n[1] \in os \cup {0} THEN thrown[n] ELSE "Fresh"]
  <1>1. step' = [n \in Milestones |->
                   IF n[1] \in os /\ Releases(kept, n) THEN QueryResetDirty(kept[n]) ELSE kept[n]]
    BY DEF Settle, Cleanup
  <1>2. step[m] \in StepState
    BY DEF TypeOK
  <1>3. st[m] = IF m \in inv THEN TryInvalidate(step[m]) ELSE step[m]
    OBVIOUS
  <1>4. thrown[m] = IF stops THEN MarkCanceled(st[m]) ELSE st[m]
    OBVIOUS
  <1>5. kept[m] = IF m[1] \in os \cup {0} THEN thrown[m] ELSE "Fresh"
    OBVIOUS
  <1> HIDE DEF st, thrown, kept
  <1>6. step'[m] = IF m[1] \in os /\ Releases(kept, m) THEN QueryResetDirty(kept[m]) ELSE kept[m]
    BY <1>1
  <1>7. /\ st[m] \in StepState
        /\ st[m] = "Done" <=> step[m] = "Done" /\ m \notin inv
        /\ st[m] = "Started" <=> step[m] = "Started" /\ m \notin inv
    BY <1>2, <1>3 DEF TryInvalidate, StepState
  <1>8. /\ thrown[m] \in StepState
        /\ thrown[m] = "Done" <=> st[m] = "Done"
        /\ thrown[m] = "Started" <=> st[m] = "Started" /\ ~stops
    BY <1>4, <1>7 DEF MarkCanceled, StepState
  <1>9. /\ kept[m] \in StepState
        /\ kept[m] = "Done" <=> thrown[m] = "Done" /\ m[1] \in os \cup {0}
        /\ kept[m] = "Started" <=> thrown[m] = "Started" /\ m[1] \in os \cup {0}
        /\ m[1] \notin os \cup {0} => kept[m] = "Fresh"
    BY <1>5, <1>8 DEF StepState
  <1>10. /\ step'[m] \in StepState
         /\ step'[m] = "Done" <=> kept[m] = "Done"
         /\ step'[m] = "Started" <=> kept[m] = "Started"
         /\ m[1] \notin os => step'[m] = kept[m]
    BY <1>6, <1>9 DEF QueryResetDirty, IsDirty, StepState
  <1> QED BY <1>7, <1>8, <1>9, <1>10

RestAfter(os, stops, pts, changed) ==
  /\ TypeOK'
  /\ objs' = os /\ split' = split /\ typed' = typed
  /\ running' = (running /\ ~stops)
  /\ \A o \in Objects : ironed'[o] \in {0, ironed[o]}
  /\ fresh' = {m \in fresh \ changed : Entered(step'[m])}
  /\ points' \in {"none", pts}
  /\ (\A o \in os : step'[<<o, "posSupportSpotsSearch">>] # "Done") => points' = "none"

LEMMA SettledRest ==
  ASSUME Plain, TypeOK,
         NEW inv, NEW os, NEW stops, NEW pts, NEW changed,
         os \subseteq Objects, pts \in {"none", "current", "outdated"},
         Settle(inv, os, stops, pts, changed)
  PROVE  RestAfter(os, stops, pts, changed)
  <1> DEFINE st == [n \in Milestones |-> IF n \in inv THEN TryInvalidate(step[n]) ELSE step[n]]
             thrown == [n \in Milestones |-> IF stops THEN MarkCanceled(st[n]) ELSE st[n]]
             kept == [n \in Milestones |-> IF n[1] \in os \cup {0} THEN thrown[n] ELSE "Fresh"]
  <1>0. StepsAfter(inv, os, stops)
    BY SettledStep
  <1>1. PICK half \in Abandoned(stops) :
          /\ Cleanup(kept, os, pts, IronedAfter(half))
          /\ split' = SplitAfter(half)
          /\ fresh' = {m \in fresh \ changed : Entered(step'[m])}
          /\ objs' = os
          /\ running' = (running /\ ~stops)
          /\ searching' = (searching /\ ~stops)
          /\ typed' = typed
    BY DEF Settle
  <1> HIDE DEF st, thrown, kept
  <1>2. half = {}
    BY <1>1 DEF Abandoned, Plain
  <1>3. split' = split
    BY <1>1, <1>2 DEF SplitAfter, TypeOK
  <1>4. IronedAfter(half) = ironed
    BY <1>2 DEF IronedAfter, TypeOK
  <1>5. /\ ironed' \in [Objects -> 0 .. 2]
        /\ \A o \in Objects : ironed'[o] \in {0, ironed[o]}
    <2>1. ironed' = [o \in Objects |-> IF o \in os /\ Releases(kept, <<o, "posInfill">>) THEN 0 ELSE ironed[o]]
      BY <1>1, <1>4 DEF Cleanup
    <2>2. ironed \in [Objects -> 0 .. 2]
      BY DEF TypeOK
    <2> QED BY <2>1, <2>2
  <1>6. points' = IF PointsKept(kept, os) THEN pts ELSE "none"
    BY <1>1 DEF Cleanup
  <1>7. ASSUME \A o \in os : step'[<<o, "posSupportSpotsSearch">>] # "Done"
        PROVE  points' = "none"
    <2>1. ASSUME NEW o \in os
          PROVE  kept[<<o, "posSupportSpotsSearch">>] # "Done"
      <3>1. <<o, "posSupportSpotsSearch">> \in Milestones
        BY MilestoneForms
      <3>2. ~Releases(kept, <<o, "posSupportSpotsSearch">>)
        BY DEF Releases
      <3>3. step' = [n \in Milestones |->
                       IF n[1] \in os /\ Releases(kept, n) THEN QueryResetDirty(kept[n]) ELSE kept[n]]
        BY <1>1 DEF Cleanup
      <3>4. step'[<<o, "posSupportSpotsSearch">>] = kept[<<o, "posSupportSpotsSearch">>]
        BY <3>1, <3>2, <3>3
      <3> QED BY <3>4, <1>7
    <2> QED BY <2>1, <1>6 DEF PointsKept
  <1>8. step' \in [Milestones -> StepState]
    <2>1. step' = [n \in Milestones |->
                     IF n[1] \in os /\ Releases(kept, n) THEN QueryResetDirty(kept[n]) ELSE kept[n]]
      BY <1>1 DEF Cleanup
    <2>2. \A m \in Milestones : step'[m] \in StepState
      BY <1>0 DEF StepsAfter
    <2> QED BY <2>1, <2>2
  <1>9. Active' # {} => running'
    <2>1. \A m \in Milestones : step'[m] = "Started" => step[m] = "Started" /\ ~stops
      BY <1>0 DEF StepsAfter
    <2>2. ASSUME Active' # {}
          PROVE  Active # {} /\ ~stops
      BY <2>1, <2>2 DEF Active
    <2> QED BY <1>1, <2>2 DEF TypeOK
  <1>10. TypeOK'
    BY <1>1, <1>3, <1>5, <1>6, <1>8, <1>9 DEF TypeOK
  <1> QED BY <1>1, <1>3, <1>5, <1>6, <1>7, <1>10 DEF RestAfter

-----------------------------------------------------------------------------
(* An invalidation that takes along what depends on what it invalidates,   *)
(* stops the worker it concerns and reaches every milestone whose inputs   *)
(* change keeps the invariant.                                             *)
Allowed(inv, os, stops, pts, changed) ==
  /\ inv \in SUBSET Milestones /\ os \in SUBSET Objects /\ stops \in BOOLEAN
  /\ pts \in {"none", "current", "outdated"} /\ changed \in SUBSET Milestones
  /\ \A m \in Milestones : \A n \in Inputs[m] : n \in inv => m \in inv
  /\ \A o \in Objects : <<o, "posIroning">> \in inv => <<o, "posInfill">> \in inv
  /\ AllCovered => \A m \in changed : m \in inv \/ m[1] \notin (objs \cap os) \cup {0}
  /\ running /\ EnteredAny(inv) => stops
  /\ os = objs \/ ((running => stops) /\ \A m \in Milestones : m[1] = 0 => m \in inv)
  /\ AllCovered /\ pts = "outdated" => \A o \in Objects : <<o, "posSupportSpotsSearch">> \in inv

LEMMA SettledInv ==
  ASSUME Plain, MInv,
         NEW inv, NEW os, NEW stops, NEW pts, NEW changed,
         Settle(inv, os, stops, pts, changed),
         Allowed(inv, os, stops, pts, changed)
  PROVE  MInv'
  <1>0. /\ inv \in SUBSET Milestones /\ os \in SUBSET Objects /\ stops \in BOOLEAN
        /\ pts \in {"none", "current", "outdated"} /\ changed \in SUBSET Milestones
        /\ \A m \in Milestones : \A n \in Inputs[m] : n \in inv => m \in inv
        /\ \A o \in Objects : <<o, "posIroning">> \in inv => <<o, "posInfill">> \in inv
        /\ AllCovered => \A m \in changed : m \in inv \/ m[1] \notin (objs \cap os) \cup {0}
        /\ running /\ EnteredAny(inv) => stops
        /\ os = objs \/ ((running => stops) /\ \A m \in Milestones : m[1] = 0 => m \in inv)
        /\ AllCovered /\ pts = "outdated" => \A o \in Objects : <<o, "posSupportSpotsSearch">> \in inv
    BY DEF Allowed
  <1>1. /\ TypeOK
        /\ os \subseteq Objects
    BY <1>0 DEF MInv
  <1>2. \A m \in Milestones :
          /\ step'[m] \in StepState
          /\ step'[m] = "Done" <=> step[m] = "Done" /\ m \notin inv /\ m[1] \in os \cup {0}
          /\ step'[m] = "Started" <=> step[m] = "Started" /\ m \notin inv /\ ~stops /\ m[1] \in os \cup {0}
          /\ m[1] \notin os \cup {0} => step'[m] = "Fresh"
    <2>1. StepsAfter(inv, os, stops)
      BY <1>1, SettledStep
    <2> QED BY <2>1 DEF StepsAfter
  <1>3. /\ TypeOK'
        /\ objs' = os /\ split' = split /\ typed' = typed
        /\ running' = (running /\ ~stops)
        /\ \A o \in Objects : ironed'[o] \in {0, ironed[o]}
        /\ fresh' = {m \in fresh \ changed : Entered(step'[m])}
        /\ points' \in {"none", pts}
        /\ (\A o \in os : step'[<<o, "posSupportSpotsSearch">>] # "Done") => points' = "none"
    <2>1. RestAfter(os, stops, pts, changed)
      BY <1>0, <1>1, SettledRest
    <2> QED BY <2>1 DEF RestAfter
  <1>4. \A m \in Milestones : Present(m)' <=> m[1] \in os \cup {0}
    BY <1>3 DEF Present
  <1>5. \A m \in Milestones : Entered(step[m]) => m[1] \in objs \cup {0}
    BY DEF MInv, AbsentFresh, Present, Entered
  <1>6. AbsentFresh'
    BY <1>2, <1>4 DEF AbsentFresh
  <1>7. ASSUME AllCovered
        PROVE  \A m \in Milestones : m \in fresh /\ Entered(step'[m]) /\ Entered(step[m]) /\ m \notin inv => m \in fresh'
    <2>1. ASSUME NEW m \in Milestones, m \in fresh, Entered(step'[m]), Entered(step[m]), m \notin inv
          PROVE  m \in fresh'
      <3>1. m[1] \in os \cup {0}
        BY <2>1, <1>2 DEF Entered
      <3>2. m[1] \in objs \cup {0}
        BY <2>1, <1>5
      <3>3. m \notin changed
        BY <1>0, <1>7, <2>1, <3>1, <3>2
      <3> QED BY <2>1, <3>3, <1>3
    <2> QED BY <2>1
  <1>8. ASSUME AllCovered
        PROVE  DoneIsFresh'
    <2>1. ASSUME NEW m \in Milestones, step'[m] = "Done"
          PROVE  m \in fresh'
      <3>1. step[m] = "Done" /\ m \notin inv
        BY <2>1, <1>2
      <3>2. m \in fresh
        BY <3>1, <1>5, <1>8 DEF MInv, DoneIsFresh, Present, Entered
      <3> QED BY <2>1, <3>1, <3>2, <1>7, <1>8 DEF Entered
    <2> QED BY <2>1 DEF DoneIsFresh
  (* What m looked at before it still looks at, and it is still there.     *)
  <1>9. ASSUME NEW m \in Milestones, Entered(step'[m]), NEW n \in Inputs[m], Present(n)'
        PROVE  /\ Entered(step[m]) /\ m \notin inv /\ n \notin inv
               /\ Present(m) /\ Present(n) /\ n \in Milestones
    <2>1. Entered(step[m]) /\ m \notin inv
      BY <1>9, <1>2 DEF Entered
    <2>2. n \in Milestones /\ (m[1] = 0 \/ n[1] \in {m[1], 0})
      BY <1>9 DEF Inputs
    <2>3. Present(m)
      BY <2>1, <1>5 DEF Present
    <2>4. CASE m[1] = 0
      <3>1. os = objs
        BY <1>0, <2>1, <2>4
      <3> QED BY <1>0, <3>1, <1>4, <1>9, <2>1, <2>2, <2>3 DEF Present
    <2>5. CASE m[1] # 0
      BY <1>0, <2>1, <2>2, <2>3, <2>5 DEF Present
    <2> QED BY <1>0, <2>1, <2>2, <2>3, <2>4, <2>5
  <1>10. PrerequisitesDone'
    <2>1. ASSUME NEW m \in Milestones, step'[m] = "Done", NEW n \in Inputs[m], Present(n)'
          PROVE  step'[n] = "Done"
      <3>1. /\ step[m] = "Done" /\ n \notin inv
            /\ Present(m) /\ Present(n) /\ n \in Milestones
        BY <2>1, <1>2, <1>9 DEF Entered
      <3>2. step[n] = "Done"
        BY <3>1 DEF MInv, PrerequisitesDone
      <3>3. n[1] \in os \cup {0}
        BY <2>1, <3>1, <1>4
      <3> QED BY <3>1, <3>2, <3>3, <1>2
    <2>2. Inputs' = Inputs
      BY DEF Inputs, Milestones, StepReads
    <2> QED BY <2>1 DEF PrerequisitesDone
  <1>11. ActiveInputsDone'
    <2>1. ASSUME NEW m \in Milestones, step'[m] = "Started"
          PROVE  running' /\ Present(m)'
      <3>1. m[1] \in os \cup {0}
        BY <2>1, <1>2
      <3>2. running'
        BY <2>1, <1>3 DEF TypeOK, Active
      <3> QED BY <3>1, <3>2, <1>4
    <2>2. ASSUME NEW m \in Milestones, step'[m] = "Started", NEW n \in Inputs[m], Present(n)'
          PROVE  step'[n] = "Done"
      <3>1. /\ step[m] = "Started" /\ n \notin inv
            /\ Present(m) /\ Present(n) /\ n \in Milestones
        BY <2>2, <1>2, <1>9 DEF Entered
      <3>2. m \in Active
        BY <3>1 DEF Active
      <3>3. step[n] = "Done"
        BY <3>1, <3>2 DEF MInv, ActiveInputsDone
      <3>4. n[1] \in os \cup {0}
        BY <2>2, <3>1, <1>4
      <3> QED BY <3>1, <3>3, <3>4, <1>2
    <2> QED BY <2>1, <2>2 DEF ActiveInputsDone, Active
  <1>11a. ASSUME AllCovered
         PROVE  ActiveInputsStable'
    <2>1. ASSUME NEW m \in Milestones, step'[m] = "Started"
          PROVE  m \in fresh'
      <3>1. step[m] = "Started" /\ m \notin inv
        BY <2>1, <1>2
      <3>2. m \in Active
        BY <3>1 DEF Active
      <3>3. m \in fresh
        BY <3>2, <1>11a DEF MInv, ActiveInputsStable
      <3> QED BY <2>1, <3>1, <3>3, <1>7, <1>11a DEF Entered
    <2>2. ASSUME NEW m \in Milestones, step'[m] = "Started", NEW n \in Inputs[m], Present(n)'
          PROVE  n \in fresh'
      <3>1. /\ step[m] = "Started" /\ n \notin inv
            /\ Present(m) /\ Present(n) /\ n \in Milestones
        BY <2>2, <1>2, <1>9 DEF Entered
      <3>2. m \in Active
        BY <3>1 DEF Active
      <3>3. step[n] = "Done" /\ n \in fresh
        BY <3>1, <3>2, <1>11a DEF MInv, ActiveInputsStable
      <3>4. step'[n] = "Done"
        BY <2>2, <1>11 DEF ActiveInputsDone, Active
      <3> QED BY <3>1, <3>3, <3>4, <1>7, <1>11a DEF Entered
    <2> QED BY <2>1, <2>2, <1>11 DEF ActiveInputsStable, ActiveInputsDone, Active
  <1>12. SlicesKnown'
    <2>1. \A m \in Active' : m \in Active
      BY <1>2 DEF Active
    <2> QED BY <2>1, <1>3 DEF MInv, SlicesKnown
  <1>13. IroningPending'
    <2>1. ASSUME NEW o \in Objects, step'[<<o, "posInfill">>] \in {"Started", "Done"},
                 step'[<<o, "posIroning">>] # "Done"
          PROVE  ironed'[o] = 0
      <3>1. <<o, "posInfill">> \in Milestones /\ <<o, "posIroning">> \in Milestones
        BY MilestoneForms
      <3>2. step[<<o, "posInfill">>] \in {"Started", "Done"} /\ <<o, "posInfill">> \notin inv /\ o \in os \cup {0}
        BY <2>1, <3>1, <1>2
      <3>3. step[<<o, "posIroning">>] # "Done"
        BY <1>0, <2>1, <3>1, <3>2, <1>2
      <3>4. ironed[o] = 0
        BY <3>2, <3>3 DEF MInv, IroningPending
      <3> QED BY <3>4, <1>3
    <2> QED BY <2>1 DEF IroningPending
  <1>14. ASSUME AllCovered
         PROVE  points' # "outdated"
    <2>1. CASE pts = "outdated"
      <3>1. \A o \in os : step'[<<o, "posSupportSpotsSearch">>] # "Done"
        BY <1>0, <1>14, <2>1, <1>1, <1>2, MilestoneForms
      <3> QED BY <3>1, <1>3
    <2> QED BY <2>1, <1>0, <1>3
  <1> QED BY <1>3, <1>6, <1>8, <1>10, <1>11, <1>12, <1>13, <1>14, <1>11a DEF MInv

-----------------------------------------------------------------------------
LEMMA InitMInv ==
  ASSUME Init
  PROVE  MInv
  <1> USE DEF Init
  <1>1. \A m \in Milestones : step[m] = "Fresh"
    OBVIOUS
  <1>2. Active = {}
    BY <1>1 DEF Active
  <1>3. TypeOK
    <2>1. step \in [Milestones -> StepState]
      BY DEF StepState
    <2>2. ironed \in [Objects -> 0 .. 2]
      OBVIOUS
    <2>3. objs \subseteq Objects /\ fresh \subseteq Milestones /\ split \subseteq Objects /\ typed \subseteq Objects
      OBVIOUS
    <2>4. points \in {"none", "current", "outdated"} /\ searching \in BOOLEAN /\ running \in BOOLEAN
      OBVIOUS
    <2> QED BY <1>2, <2>1, <2>2, <2>3, <2>4 DEF TypeOK
  <1>4. AbsentFresh /\ DoneIsFresh /\ PrerequisitesDone
    BY <1>1 DEF AbsentFresh, DoneIsFresh, PrerequisitesDone
  <1>5. ActiveInputsDone /\ ActiveInputsStable /\ SlicesKnown
    BY <1>2 DEF ActiveInputsDone, ActiveInputsStable, SlicesKnown
  <1>6. IroningPending
    BY DEF IroningPending
  <1> QED BY <1>3, <1>4, <1>5, <1>6 DEF MInv

(* Whoever looks at an invalidated milestone is invalidated as well.       *)
LEMMA OptionClosed ==
  ASSUME Plain, NEW k \in Options
  PROVE  /\ OptionInvalidates[k] \subseteq Milestones
         /\ ReadersOfOption[k] \subseteq Milestones
         /\ \A m \in Milestones : \A n \in Inputs[m] :
              n \in OptionInvalidates[k] => m \in OptionInvalidates[k]
         /\ AllCovered => ReadersOfOption[k] \subseteq OptionInvalidates[k]
         /\ \A o \in Objects : <<o, "posIroning">> \in OptionInvalidates[k]
                               => <<o, "posInfill">> \in OptionInvalidates[k]
  <1>1. OptionInvalidates[k] = {m \in Milestones : \E s \in Row[k] : m[2] \in Cascade(s)}
    BY DEF OptionInvalidates
  <1>2. ASSUME NEW m \in Milestones, NEW n \in Inputs[m], n \in OptionInvalidates[k]
        PROVE  m \in OptionInvalidates[k]
    <2>1. n \in Milestones /\ n[2] \in StepReads[m[2]]
      BY <1>2 DEF Inputs
    <2>2. PICK s \in Row[k] : n[2] \in Cascade(s)
      BY <1>1, <1>2
    <2>3. s \in StepNames /\ m[2] \in StepNames
      BY RowNames, MilestoneParts
    <2>4. m[2] \in Cascade(s)
      BY <2>1, <2>2, <2>3, CascadeClosed
    <2> QED BY <1>1, <2>4
  <1>3. ASSUME AllCovered, NEW m \in ReadersOfOption[k]
        PROVE  m \in OptionInvalidates[k]
    <2>1. m \in Milestones /\ m[2] \in OptionReaders[k]
      BY <1>3 DEF ReadersOfOption
    <2> QED BY <1>1, <1>3, <2>1 DEF AllCovered, Covered
  <1>4. ASSUME NEW o \in Objects, <<o, "posIroning">> \in OptionInvalidates[k]
        PROVE  <<o, "posInfill">> \in OptionInvalidates[k]
    <2>1. PICK s \in Row[k] : "posIroning" \in Cascade(s)
      BY <1>1, <1>4
    <2>2. s \in StepNames
      BY RowNames
    <2>3. "posInfill" \in Cascade(s) \/ s = "posIroning"
      BY <2>1, <2>2, DependentsTable
         DEF Cascade, DependentPrintSteps, StepNames, ObjectSteps, PrintSteps
    <2>4. \E r \in Row[k] : "posInfill" \in Cascade(r)
      BY <2>3, RowNames DEF Cascade
    <2> QED BY <1>1, <2>4, MilestoneForms
  <1>5. ReadersOfOption[k] \subseteq Milestones
    BY DEF ReadersOfOption
  <1> QED BY <1>1, <1>2, <1>3, <1>4, <1>5

(* The support points are not kept when an option their search depends on  *)
(* has changed.                                                            *)
LEMMA SearchInvalidated ==
  ASSUME Plain, AllCovered, NEW k \in Options, OptionReaders[k] \cap SearchInputs # {}, NEW o \in Objects
  PROVE  <<o, "posSupportSpotsSearch">> \in OptionInvalidates[k]
  <1>1. PICK t \in OptionReaders[k] : t \in SearchInputs
    OBVIOUS
  <1>2. PICK s \in Row[k] : t \in Cascade(s)
    BY <1>1 DEF AllCovered, Covered
  <1>3. s \in StepNames
    BY RowNames
  <1>4. "posSupportSpotsSearch" \in Cascade(s)
    <2> USE DEF SearchInputs, StepNames, ObjectSteps, PrintSteps
    <2>1. CASE t = "posSupportSpotsSearch"
      BY <1>2, <2>1
    <2>2. CASE t \in {"posPerimeters", "posInfill"}
      BY <1>2, <1>3, <2>2, ReadsTable, CascadeClosed
    <2>3. CASE t = "posSlice"
      <3>1. "posPerimeters" \in Cascade(s)
        BY <1>2, <1>3, <2>3, ReadsTable, CascadeClosed
      <3> QED BY <1>3, <3>1, ReadsTable, CascadeClosed
    <2>4. CASE t = "posPrepareInfill"
      <3>1. "posInfill" \in Cascade(s)
        BY <1>2, <1>3, <2>4, ReadsTable, CascadeClosed
      <3> QED BY <1>3, <3>1, ReadsTable, CascadeClosed
    <2> QED BY <1>1, <2>1, <2>2, <2>3, <2>4
  <1> QED BY <1>2, <1>4, MilestoneForms DEF OptionInvalidates

LEMMA ApplyOptionInv ==
  ASSUME Plain, MInv, NEW k \in Options, ApplyOption(k)
  PROVE  MInv'
  <1> DEFINE out == points = "current" /\ OptionReaders[k] \cap SearchInputs # {}
             inv == OptionInvalidates[k]
             stops == running /\ EnteredAny(inv)
             pts == IF out THEN "outdated" ELSE points
  <1>1. Settle(inv, objs, stops, pts, ReadersOfOption[k])
    BY DEF ApplyOption
  <1>2. /\ inv \in SUBSET Milestones /\ ReadersOfOption[k] \in SUBSET Milestones
        /\ \A m \in Milestones : \A n \in Inputs[m] : n \in inv => m \in inv
        /\ \A o \in Objects : <<o, "posIroning">> \in inv => <<o, "posInfill">> \in inv
        /\ AllCovered => \A m \in ReadersOfOption[k] : m \in inv
    BY OptionClosed
  <1>3. objs \in SUBSET Objects /\ pts \in {"none", "current", "outdated"}
    BY DEF MInv, TypeOK
  <1>4. stops \in BOOLEAN
    BY DEF MInv, TypeOK, EnteredAny
  <1>5. ASSUME AllCovered, pts = "outdated"
        PROVE  \A o \in Objects : <<o, "posSupportSpotsSearch">> \in inv
    <2>1. OptionReaders[k] \cap SearchInputs # {}
      BY <1>5 DEF MInv
    <2> QED BY <1>5, <2>1, SearchInvalidated
  <1> HIDE DEF inv, pts
  <1>6. Allowed(inv, objs, stops, pts, ReadersOfOption[k])
    BY <1>2, <1>3, <1>4, <1>5 DEF Allowed
  <1> QED BY <1>1, <1>6, SettledInv

(* Without a wipe tower only the G-code looks at the skirt, the tower and  *)
(* the G-code itself.                                                      *)
LEMMA PrintStepReaders ==
  ASSUME Plain, NEW m \in Milestones, NEW n \in Inputs[m],
         n[2] \in {"psSkirtBrim", "psGCodeExport", "psWipeTower"}
  PROVE  m = <<0, "psGCodeExport">>
  <1>1. n[2] \in StepReads[m[2]]
    BY DEF Inputs
  <1>2. m[2] = "psGCodeExport"
    <2> USE ReadsTable, PlainReads
    <2>1. CASE m[2] \in ObjectSteps
      <3>1. StepReads[m[2]] \subseteq ObjectSteps
        BY <2>1 DEF ObjectSteps
      <3> QED BY <1>1, <3>1 DEF ObjectSteps
    <2>2. CASE m[2] \in PrintSteps
      BY <1>1, <2>2 DEF PrintSteps
    <2> QED BY <2>1, <2>2, MilestoneParts DEF StepNames
  <1> QED BY <1>2, MilestoneParts DEF Milestones, ObjectSteps, PrintSteps, Objects

LEMMA PrintForms ==
  /\ OfPrint({"psSkirtBrim", "psGCodeExport"}) = {<<0, "psSkirtBrim">>, <<0, "psGCodeExport">>}
  /\ OfPrint({"psWipeTower"}) = {<<0, "psWipeTower">>}
  /\ \A s \in PrintSteps : <<0, s>> \in Milestones
  /\ \A m \in Milestones : m[1] = 0 => m \in {0} \X PrintSteps
  /\ \A o \in Objects : o # 0
  BY DEF OfPrint, Milestones, Objects

LEMMA ApplyInstancesInv ==
  ASSUME Plain, MInv, NEW equal_length \in BOOLEAN, ApplyInstances(equal_length)
  PROVE  MInv'
  <1> DEFINE first  == OfPrint({"psSkirtBrim", "psGCodeExport"})
             second == IF ~equal_length /\ ~EnteredAny(first) THEN OfPrint({"psWipeTower"}) ELSE {}
             inv    == first \cup second
             stops  == running /\ EnteredAny(inv)
             changed == first \cup IF HasWipeTower /\ ~equal_length THEN OfPrint({"psWipeTower"}) ELSE {}
  <1>1. Settle(inv, objs, stops, points, changed)
    BY DEF ApplyInstances
  <1>2. changed = first
    BY DEF Plain
  <1>3. /\ inv \subseteq {<<0, "psSkirtBrim">>, <<0, "psGCodeExport">>, <<0, "psWipeTower">>}
        /\ <<0, "psGCodeExport">> \in inv
        /\ first \subseteq inv
    BY PrintForms
  <1>4. stops \in BOOLEAN
    BY DEF MInv, TypeOK, EnteredAny
  <1> HIDE DEF first, inv
  <1>5. inv \subseteq Milestones
    BY <1>3, PrintForms DEF PrintSteps
  <1>6. \A m \in Milestones : \A n \in Inputs[m] : n \in inv => m \in inv
    BY <1>3, PrintStepReaders
  <1>7. \A o \in Objects : <<o, "posIroning">> \notin inv
    BY <1>3, PrintForms
  <1>8. Allowed(inv, objs, stops, points, first)
    BY <1>3, <1>4, <1>5, <1>6, <1>7 DEF Allowed, MInv, TypeOK
  <1> QED BY <1>1, <1>2, <1>8, SettledInv

LEMMA ApplyObjectsInv ==
  ASSUME Plain, MInv, NEW os \in SUBSET Objects, ApplyObjects(os)
  PROVE  MInv'
  <1> DEFINE inv == {0} \X PrintSteps
             pts == IF os = {} THEN "none" ELSE points
             changed == {m \in Milestones : m[1] \notin objs \cap os}
  <1>1. Settle(inv, os, running, pts, changed)
    BY DEF ApplyObjects
  <1>2. inv \subseteq Milestones
    BY DEF Milestones
  <1>3. ASSUME NEW m \in Milestones, NEW n \in Inputs[m], n \in inv
        PROVE  m \in inv
    <2>1. n[2] \in PrintSteps /\ n[2] \in StepReads[m[2]]
      BY <1>3 DEF Inputs
    <2>2. m[2] \notin ObjectSteps
      BY <2>1, ReadsTable, PlainReads DEF ObjectSteps, PrintSteps
    <2> QED BY <2>2 DEF Milestones
  <1>4. \A o \in Objects : <<o, "posIroning">> \notin inv
    BY DEF PrintSteps
  <1>5. \A m \in changed : m \in inv \/ m[1] \notin (objs \cap os) \cup {0}
    BY PrintForms
  <1>6. \A m \in Milestones : m[1] = 0 => m \in inv
    BY PrintForms
  <1>7. /\ pts \in {"none", "current", "outdated"} /\ running \in BOOLEAN
        /\ AllCovered => pts # "outdated"
    BY DEF MInv, TypeOK
  <1>8. changed \subseteq Milestones
    OBVIOUS
  <1> HIDE DEF inv, pts, changed
  <1>9. Allowed(inv, os, running, pts, changed)
    BY <1>2, <1>3, <1>4, <1>5, <1>6, <1>7, <1>8 DEF Allowed
  <1> QED BY <1>1, <1>9, SettledInv

LEMMA EndRunInv ==
  ASSUME Plain, MInv, EndRun
  PROVE  MInv'
  <1>1. Settle({}, objs, TRUE, points, {})
    BY DEF EndRun
  <1>2. Allowed({}, objs, TRUE, points, {})
    BY DEF Allowed, MInv, TypeOK
  <1> QED BY <1>1, <1>2, SettledInv

-----------------------------------------------------------------------------
(* The steps of the worker.                                                *)
LEMMA StartInv ==
  ASSUME MInv, Start
  PROVE  MInv'
  <1>1. /\ running' = TRUE
        /\ UNCHANGED <<objs, step, fresh, points, split, typed, ironed, searching>>
    BY DEF Start
  <1>2. Active' = Active /\ \A m : Present(m)' <=> Present(m)
    BY <1>1 DEF Active, Present
  <1>3. TypeOK'
    BY <1>1, <1>2 DEF MInv, TypeOK
  <1>4. AbsentFresh' /\ PrerequisitesDone' /\ IroningPending'
    BY <1>1, <1>2 DEF MInv, AbsentFresh, PrerequisitesDone, IroningPending
  <1>5. ActiveInputsDone' /\ SlicesKnown'
    BY <1>1, <1>2 DEF MInv, ActiveInputsDone, SlicesKnown
  <1>6. ASSUME AllCovered
        PROVE  DoneIsFresh' /\ ActiveInputsStable'
    BY <1>1, <1>2, <1>6 DEF MInv, DoneIsFresh, ActiveInputsStable
  <1> QED BY <1>1, <1>3, <1>4, <1>5, <1>6 DEF MInv

LEMMA StorePointsInv ==
  ASSUME MInv, StorePoints
  PROVE  MInv'
  <1>1. /\ points' = "current" /\ searching' = FALSE
        /\ UNCHANGED <<objs, step, fresh, split, typed, ironed, running>>
    BY DEF StorePoints
  <1>2. Active' = Active /\ \A m : Present(m)' <=> Present(m)
    BY <1>1 DEF Active, Present
  <1>3. TypeOK'
    BY <1>1, <1>2 DEF MInv, TypeOK
  <1>4. AbsentFresh' /\ PrerequisitesDone' /\ IroningPending'
    BY <1>1, <1>2 DEF MInv, AbsentFresh, PrerequisitesDone, IroningPending
  <1>5. ActiveInputsDone' /\ SlicesKnown'
    BY <1>1, <1>2 DEF MInv, ActiveInputsDone, SlicesKnown
  <1>6. ASSUME AllCovered
        PROVE  DoneIsFresh' /\ ActiveInputsStable'
    BY <1>1, <1>2, <1>6 DEF MInv, DoneIsFresh, ActiveInputsStable
  <1> QED BY <1>1, <1>3, <1>4, <1>5, <1>6 DEF MInv

LEMMA StutterInv ==
  ASSUME MInv, UNCHANGED vars
  PROVE  MInv'
  <1>1. UNCHANGED <<objs, step, fresh, points, split, typed, ironed, searching, running>>
    BY DEF vars
  <1>2. Active' = Active /\ \A m : Present(m)' <=> Present(m)
    BY <1>1 DEF Active, Present
  <1>3. TypeOK'
    BY <1>1, <1>2 DEF MInv, TypeOK
  <1>4. AbsentFresh' /\ PrerequisitesDone' /\ IroningPending'
    BY <1>1, <1>2 DEF MInv, AbsentFresh, PrerequisitesDone, IroningPending
  <1>5. ActiveInputsDone' /\ SlicesKnown'
    BY <1>1, <1>2 DEF MInv, ActiveInputsDone, SlicesKnown
  <1>6. ASSUME AllCovered
        PROVE  DoneIsFresh' /\ ActiveInputsStable'
    BY <1>1, <1>2, <1>6 DEF MInv, DoneIsFresh, ActiveInputsStable
  <1> QED BY <1>1, <1>3, <1>4, <1>5, <1>6 DEF MInv

LEMMA SetStartedInv ==
  ASSUME MInv, NEW m \in Milestones, SetStarted(m)
  PROVE  MInv'
  <1>1. /\ running /\ Present(m) /\ step[m] # "Done" /\ Active = {}
        /\ \A n \in Earlier[m] : Present(n) => step[n] = "Done"
        /\ step' = [step EXCEPT ![m] = "Started"]
        /\ fresh' = {n \in fresh \cup {m} : m \notin Inputs[n]}
        /\ split' = IF Restores(m) THEN split \ {m[1]} ELSE split
        /\ typed' = IF m[2] \in {"posSlice", "posPerimeters"} THEN typed \ {m[1]} ELSE typed
        /\ ironed' = IF ClearsFills(m) THEN [ironed EXCEPT ![m[1]] = 0] ELSE ironed
        /\ searching' = (m[2] = "posSupportSpotsSearch" /\ points = "none")
        /\ objs' = objs /\ points' = points /\ running' = running
    BY DEF SetStarted
  <1>2. TypeOK
    BY DEF MInv
  <1>3. /\ step' \in [Milestones -> StepState]
        /\ \A n \in Milestones : step'[n] = IF n = m THEN "Started" ELSE step[n]
    <2>1. step \in [Milestones -> StepState]
      BY <1>2 DEF TypeOK
    <2> QED BY <1>1, <2>1 DEF StepState
  <1>4. Active' = {m}
    BY <1>1, <1>3 DEF Active
  <1>5. \A n : Present(n)' <=> Present(n)
    BY <1>1 DEF Present
  (* Nothing valid looks at what is not.                                   *)
  <1>6. ASSUME NEW n \in Milestones, step[n] = "Done"
        PROVE  n # m /\ m \notin Inputs[n] /\ (AllCovered => n \in fresh')
    <2>1. n # m
      BY <1>1, <1>6
    <2>2. Present(n)
      BY <1>6 DEF MInv, AbsentFresh
    <2>3. m \notin Inputs[n] /\ (AllCovered => n \in fresh)
      BY <1>1, <1>6, <2>2 DEF MInv, PrerequisitesDone, DoneIsFresh
    <2> QED BY <1>1, <2>1, <2>3
  <1>7. m \in fresh'
    BY <1>1, InputsEarlier
  <1>8. ironed' \in [Objects -> 0 .. 2] /\ \A o \in Objects : ironed'[o] \in {0, ironed[o]}
    <2>1. ironed \in [Objects -> 0 .. 2]
      BY <1>2 DEF TypeOK
    <2>2. CASE ClearsFills(m)
      <3>1. ironed' = [o \in Objects |-> IF o = m[1] THEN 0 ELSE ironed[o]]
        BY <1>1, <2>1, <2>2
      <3>2. \A o \in Objects : ironed'[o] \in {0, ironed[o]} /\ ironed'[o] \in 0 .. 2
        BY <2>1, <3>1
      <3> QED BY <3>1, <3>2
    <2>3. CASE ~ClearsFills(m)
      BY <1>1, <2>1, <2>3
    <2> QED BY <2>2, <2>3
  <1>9. TypeOK'
    <2>1. objs' \subseteq Objects /\ fresh' \subseteq Milestones
      BY <1>1, <1>2 DEF TypeOK
    <2>2. split' \subseteq Objects /\ typed' \subseteq Objects
      BY <1>1, <1>2 DEF TypeOK
    <2>3. points' \in {"none", "current", "outdated"} /\ searching' \in BOOLEAN
      BY <1>1, <1>2 DEF TypeOK
    <2>4. running' \in BOOLEAN /\ (Active' # {} => running')
      BY <1>1, <1>2 DEF TypeOK
    <2> QED BY <1>3, <1>8, <2>1, <2>2, <2>3, <2>4 DEF TypeOK
  <1>10. AbsentFresh'
    BY <1>1, <1>3, <1>5 DEF MInv, AbsentFresh
  <1>11. ASSUME AllCovered
         PROVE  DoneIsFresh'
    BY <1>3, <1>6, <1>11 DEF DoneIsFresh
  <1>12. PrerequisitesDone'
    <2>1. ASSUME NEW x \in Milestones, step'[x] = "Done", NEW n \in Inputs[x], Present(n)'
          PROVE  step'[n] = "Done"
      <3>1. step[x] = "Done"
        BY <1>3, <2>1
      <3>2. Present(x) /\ Present(n)
        BY <1>5, <2>1, <3>1 DEF MInv, AbsentFresh
      <3>3. step[n] = "Done"
        BY <2>1, <3>1, <3>2 DEF MInv, PrerequisitesDone
      <3>4. n # m /\ n \in Milestones
        BY <1>1, <3>3, <2>1 DEF Inputs
      <3> QED BY <1>3, <3>3, <3>4
    <2> QED BY <2>1 DEF PrerequisitesDone
  <1>13. ActiveInputsDone' /\ (AllCovered => ActiveInputsStable')
    <2>1. ASSUME NEW n \in Inputs[m], Present(n)'
          PROVE  step'[n] = "Done" /\ (AllCovered => n \in fresh')
      <3>1. n \in Earlier[m] /\ n \in Milestones
        BY InputsEarlier DEF Inputs
      <3>2. step[n] = "Done"
        BY <1>1, <1>5, <2>1, <3>1
      <3> QED BY <1>3, <1>6, <3>1, <3>2
    <2> QED BY <1>1, <1>4, <1>5, <1>7, <2>1 DEF ActiveInputsStable, ActiveInputsDone
  <1>14. SlicesKnown'
    <2>1. split \subseteq typed
      BY DEF MInv, SlicesKnown
    <2>2. split' \subseteq typed'
      BY <1>1, <2>1 DEF Restores
    <2>3. m[2] \in {"posPerimeters", "posPrepareInfill"} => m[1] \notin split'
      BY <1>1, <2>1 DEF Restores
    <2> QED BY <1>4, <2>2, <2>3 DEF SlicesKnown
  <1>15. IroningPending'
    <2>1. ASSUME NEW o \in Objects, step'[<<o, "posInfill">>] \in {"Started", "Done"},
                 step'[<<o, "posIroning">>] # "Done"
          PROVE  ironed'[o] = 0
      <3>1. <<o, "posInfill">> \in Milestones /\ <<o, "posIroning">> \in Milestones
        BY MilestoneForms
      <3>2. CASE m = <<o, "posInfill">>
        <4>1. ClearsFills(m) /\ m[1] = o
          BY <3>2 DEF ClearsFills
        <4> QED BY <1>1, <1>2, <4>1 DEF TypeOK
      <3>3. CASE m # <<o, "posInfill">>
        <4>1. step[<<o, "posInfill">>] \in {"Started", "Done"} /\ step[<<o, "posIroning">>] # "Done"
          BY <1>1, <1>3, <2>1, <3>1, <3>3
        <4>2. ironed[o] = 0
          BY <4>1 DEF MInv, IroningPending
        <4> QED BY <1>8, <4>2
      <3> QED BY <3>2, <3>3
    <2> QED BY <2>1 DEF IroningPending
  <1> QED BY <1>1, <1>9, <1>10, <1>11, <1>12, <1>13, <1>14, <1>15 DEF MInv

LEMMA SetDoneInv ==
  ASSUME MInv, NEW m \in Active, SetDone(m)
  PROVE  MInv'
  <1>1. TypeOK /\ m \in Milestones /\ step[m] = "Started"
    BY DEF MInv, Active
  <1>2. /\ running /\ Present(m)
        /\ \A n \in Inputs[m] : Present(n) => step[n] = "Done"
    BY DEF MInv, ActiveInputsDone
  <1>3. ASSUME AllCovered
        PROVE  ~Spoiled(m)
    <2>1. ASSUME m[2] \in {"posPerimeters", "posPrepareInfill"}
          PROVE  m[1] \notin split
      BY <2>1 DEF MInv, SlicesKnown
    <2>2. ASSUME m[2] = "posIroning"
          PROVE  ironed[m[1]] = 0
      <3>1. PICK o \in Objects : m = <<o, "posIroning">>
        BY <1>1, <2>2 DEF Milestones, PrintSteps
      <3>2. <<o, "posInfill">> \in Inputs[m]
        BY <1>1, <3>1, MilestoneForms, ReadsTable DEF Inputs
      <3>3. Present(<<o, "posInfill">>)
        BY <1>2, <3>1 DEF Present
      <3>4. step[<<o, "posInfill">>] = "Done"
        BY <1>2, <3>2, <3>3
      <3> QED BY <1>1, <3>1, <3>4 DEF MInv, IroningPending
    <2>3. points # "outdated"
      BY <1>3 DEF MInv
    <2> QED BY <2>1, <2>2, <2>3 DEF Spoiled
  <1>4. /\ step' = [step EXCEPT ![m] = "Done"]
        /\ fresh' \in {fresh, fresh \ {m}}
        /\ split' = IF m[2] = "posPrepareInfill" THEN split \cup {m[1]} ELSE split
        /\ typed' = IF m[2] = "posPrepareInfill" THEN typed \cup {m[1]} ELSE typed
        /\ ironed' = IF m[2] = "posIroning" THEN [ironed EXCEPT ![m[1]] = IF @ < 2 THEN @ + 1 ELSE @] ELSE ironed
        /\ objs' = objs /\ points' = points /\ searching' = searching /\ running' = running
    BY DEF SetDone
  <1>4a. ASSUME AllCovered
         PROVE  /\ m \in fresh /\ fresh' = fresh
                /\ \A n \in Inputs[m] : Present(n) => n \in fresh
    <2>1. m \in fresh /\ \A n \in Inputs[m] : Present(n) => n \in fresh
      BY <1>4a DEF MInv, ActiveInputsStable
    <2> QED BY <1>3, <1>4a, <2>1 DEF SetDone
  <1>5. /\ step' \in [Milestones -> StepState]
        /\ \A n \in Milestones : step'[n] = IF n = m THEN "Done" ELSE step[n]
    <2>1. step \in [Milestones -> StepState]
      BY <1>1 DEF TypeOK
    <2> QED BY <1>1, <1>4, <2>1 DEF StepState
  <1>6. Active' = Active \ {m}
    BY <1>5 DEF Active
  <1>7. \A n : Present(n)' <=> Present(n)
    BY <1>4 DEF Present
  <1>8. m[2] \in ObjectSteps => m[1] \in Objects
    BY <1>1 DEF Milestones, ObjectSteps, PrintSteps
  <1>9. /\ ironed' \in [Objects -> 0 .. 2]
        /\ \A o \in Objects : m # <<o, "posIroning">> => ironed'[o] = ironed[o]
    <2>1. ironed \in [Objects -> 0 .. 2]
      BY <1>1 DEF TypeOK
    <2>2. CASE m[2] = "posIroning"
      <3>1. PICK o \in Objects : m = <<o, "posIroning">>
        BY <1>1, <2>2 DEF Milestones, PrintSteps
      <3>2. ironed' = [ironed EXCEPT ![o] = IF @ < 2 THEN @ + 1 ELSE @]
        BY <1>4, <2>2, <3>1
      <3> QED BY <2>1, <3>1, <3>2
    <2>3. CASE m[2] # "posIroning"
      BY <1>4, <2>1, <2>3
    <2> QED BY <2>2, <2>3
  <1>10. TypeOK'
    <2>1. objs' \subseteq Objects /\ fresh' \subseteq Milestones
      BY <1>1, <1>4 DEF TypeOK
    <2>2. split' \subseteq Objects /\ typed' \subseteq Objects
      BY <1>1, <1>4, <1>8 DEF TypeOK, ObjectSteps
    <2>3. points' \in {"none", "current", "outdated"} /\ searching' \in BOOLEAN
      BY <1>1, <1>4 DEF TypeOK
    <2>4. running' \in BOOLEAN /\ (Active' # {} => running')
      BY <1>1, <1>2, <1>4 DEF TypeOK
    <2> QED BY <1>5, <1>9, <2>1, <2>2, <2>3, <2>4 DEF TypeOK
  <1>11. AbsentFresh'
    BY <1>2, <1>5, <1>7 DEF MInv, AbsentFresh
  <1>12. ASSUME AllCovered
         PROVE  DoneIsFresh'
    BY <1>4a, <1>5, <1>7, <1>12 DEF MInv, DoneIsFresh
  <1>13. PrerequisitesDone'
    <2>1. ASSUME NEW x \in Milestones, Present(x)', step'[x] = "Done", NEW n \in Inputs[x], Present(n)'
          PROVE  step'[n] = "Done"
      <3>1. n \in Milestones /\ Present(n) /\ Present(x)
        BY <1>7, <2>1 DEF Inputs
      <3>2. step[n] = "Done"
        <4>1. CASE x = m
          BY <1>2, <2>1, <3>1, <4>1
        <4>2. CASE x # m
          BY <1>5, <2>1, <3>1, <4>2 DEF MInv, PrerequisitesDone
        <4> QED BY <4>1, <4>2
      <3> QED BY <1>5, <3>1, <3>2
    <2> QED BY <2>1 DEF PrerequisitesDone
  <1>14. /\ ActiveInputsDone'
         /\ AllCovered => ActiveInputsStable'
    <2>1. ASSUME NEW x \in Active'
          PROVE  /\ running' /\ Present(x)' /\ (AllCovered => x \in fresh')
                 /\ \A n \in Inputs[x] :
                      Present(n)' => step'[n] = "Done" /\ (AllCovered => n \in fresh')
      <3>1. x \in Active
        BY <1>6, <2>1
      <3>2. /\ running /\ Present(x)
            /\ \A n \in Inputs[x] : Present(n) => step[n] = "Done"
        BY <3>1 DEF MInv, ActiveInputsDone
      <3>3. ASSUME AllCovered
            PROVE  x \in fresh /\ \A n \in Inputs[x] : Present(n) => n \in fresh
        BY <3>1, <3>3 DEF MInv, ActiveInputsStable
      <3>4. Inputs[x] \subseteq Milestones
        BY <3>1 DEF Inputs, Active
      <3> QED BY <1>4, <1>4a, <1>5, <1>7, <3>2, <3>3, <3>4
    <2> QED BY <2>1 DEF ActiveInputsStable, ActiveInputsDone
  <1>15. SlicesKnown'
    <2>1. split \subseteq typed
      BY DEF MInv, SlicesKnown
    <2>2. ASSUME NEW x \in Active', x[2] \in {"posPerimeters", "posPrepareInfill"}
          PROVE  x[1] \notin split'
      <3>1. x \in Active /\ x # m /\ x \in Milestones
        BY <1>6, <2>2 DEF Active
      <3>2. x[1] \notin split
        BY <2>2, <3>1 DEF MInv, SlicesKnown
      <3>3. ASSUME m[2] = "posPrepareInfill", x[1] = m[1]
            PROVE  FALSE
        <4>1. m = <<m[1], m[2]>> /\ x = <<x[1], x[2]>>
          BY <1>1, <3>1 DEF Milestones
        <4>2. x[2] = "posPerimeters"
          BY <2>2, <3>1, <3>3, <4>1
        <4>3. x \in Inputs[m]
          BY <1>1, <3>1, <3>3, <4>2, ReadsTable DEF Inputs
        <4>4. Present(x)
          BY <1>2, <3>3 DEF Present
        <4> QED BY <1>2, <3>1, <4>3, <4>4 DEF Active
      <3> QED BY <1>4, <3>2, <3>3
    <2> QED BY <1>4, <2>1, <2>2 DEF SlicesKnown
  <1>16. IroningPending'
    <2>1. ASSUME NEW o \in Objects, step'[<<o, "posInfill">>] \in {"Started", "Done"},
                 step'[<<o, "posIroning">>] # "Done"
          PROVE  ironed'[o] = 0
      <3>1. <<o, "posInfill">> \in Milestones /\ <<o, "posIroning">> \in Milestones
        BY MilestoneForms
      <3>2. m # <<o, "posIroning">> /\ step[<<o, "posIroning">>] # "Done"
        BY <1>5, <2>1, <3>1
      <3>3. step[<<o, "posInfill">>] \in {"Started", "Done"}
        BY <1>1, <1>5, <2>1, <3>1
      <3> QED BY <1>9, <3>2, <3>3 DEF MInv, IroningPending
    <2> QED BY <2>1 DEF IroningPending
  <1> QED BY <1>4, <1>10, <1>11, <1>12, <1>13, <1>14, <1>15, <1>16 DEF MInv

-----------------------------------------------------------------------------
(* The invariant holds of every behaviour: the print it is about has no    *)
(* wipe tower, supports that do not look at bridges, and steps that leave  *)
(* nothing half made when they are interrupted.  Its last conjunct is about *)
(* options whose rows reach the steps that look at them.                   *)
THEOREM MilestonesInvariant ==
  ASSUME Plain
  PROVE  Spec => []MInv
  <1>1. Init => MInv
    BY InitMInv
  <1>2. MInv /\ [Next]_vars => MInv'
    <2> SUFFICES ASSUME MInv, [Next]_vars
                 PROVE  MInv'
      OBVIOUS
    <2>1. CASE UNCHANGED vars
      BY <2>1, StutterInv
    <2>2. ASSUME NEW k \in Options, ApplyOption(k)
          PROVE  MInv'
      BY <2>2, ApplyOptionInv
    <2>3. ASSUME NEW equal_length \in BOOLEAN, ApplyInstances(equal_length)
          PROVE  MInv'
      BY <2>3, ApplyInstancesInv
    <2>4. ASSUME NEW os \in SUBSET Objects, ApplyObjects(os)
          PROVE  MInv'
      BY <2>4, ApplyObjectsInv
    <2>5. CASE Start
      BY <2>5, StartInv
    <2>6. ASSUME NEW m \in Milestones, SetStarted(m)
          PROVE  MInv'
      BY <2>6, SetStartedInv
    <2>7. ASSUME NEW m \in Active, SetDone(m)
          PROVE  MInv'
      BY <2>7, SetDoneInv
    <2>8. CASE StorePoints
      BY <2>8, StorePointsInv
    <2>9. CASE EndRun
      BY <2>9, EndRunInv
    <2> QED BY <2>1, <2>2, <2>3, <2>4, <2>5, <2>6, <2>7, <2>8, <2>9 DEF Next
  <1> QED BY <1>1, <1>2, PTL DEF Spec

(* Every milestone has a state of PrintStateBase, and none is entered      *)
(* unless the worker is inside process().                                  *)
THEOREM MilestonesTypeOK ==
  ASSUME Plain
  PROVE  Spec => []TypeOK
  BY MilestonesInvariant, PTL DEF MInv

(* No option whose row reaches the steps that look at it leaves, changed   *)
(* at whatever moment of the run, a milestone valid that was computed from *)
(* its earlier value.                                                      *)
THEOREM MilestonesDoneIsFresh ==
  ASSUME Plain, AllCovered
  PROVE  Spec => []DoneIsFresh
  <1>1. MInv => DoneIsFresh
    BY DEF MInv
  <1> QED BY <1>1, MilestonesInvariant, PTL

(* The one-level tables of invalidate_step() reach everything that depends *)
(* on what they invalidate, whatever option has been changed.              *)
THEOREM MilestonesPrerequisitesDone ==
  ASSUME Plain
  PROVE  Spec => []PrerequisitesDone
  BY MilestonesInvariant, PTL DEF MInv

(* apply() stops the worker before it changes what the worker looks at,    *)
(* if the option's row reaches the steps that look at it.                  *)
THEOREM MilestonesActiveInputsStable ==
  ASSUME Plain, AllCovered
  PROVE  Spec => []ActiveInputsStable
  <1>1. MInv => ActiveInputsStable
    BY DEF MInv
  <1> QED BY <1>1, MilestonesInvariant, PTL

(* The two hypotheses can be met: for a print of objects with one region,  *)
(* printed with one extruder, and the fourteen options of the table that   *)
(* are not missed, every valid milestone is of the present configuration.  *)
COROLLARY PlainPrintIsFresh ==
  ASSUME Plain, ~SeveralRegions, ~SeveralExtruders, Options \cap Missed = {}
  PROVE  Spec => [](DoneIsFresh /\ ActiveInputsStable)
  <1>1. AllCovered
    BY CoveredOptions, MilestonesAssumption DEF AllCovered
  <1>2. MInv => DoneIsFresh /\ ActiveInputsStable
    BY <1>1 DEF MInv
  <1> QED BY <1>2, MilestonesInvariant, PTL
=============================================================================
