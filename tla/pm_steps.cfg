SPECIFICATION Spec
CONSTANTS
  MaxObjects = 1
  Options = {"layer_height", "external_perimeters_first", "fill_density", "fill_density_to_limit", "top_solid_layers", "ironing", "thick_bridges", "support_material_threshold", "avoid_crossing_curled_overhangs", "filament_soluble", "skirts", "wipe_tower_width", "wipe_into_infill", "perimeter_speed"}
  HasWipeTower = FALSE
  DontSupportBridges = FALSE
  SeveralRegions = FALSE
  SeveralExtruders = FALSE
  Halfway = {}
INVARIANTS
  TypeOK
  DoneIsFresh
  PrerequisitesDone
  ActiveInputsStable
