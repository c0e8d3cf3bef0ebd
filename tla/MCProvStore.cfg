SPECIFICATION Spec
CONSTANTS
  f1 = f1  f2 = f2  None = None
  File <- TwoFiles
  HasStore = TRUE
  Root <- Workspace
  Controlled = "hub"
  FoldCase <- Folded
  Flag <- Dashed
  Spellings <- ThreeParts
  Links <- Leads
CHECK_DEADLOCK FALSE
SYMMETRY Symmetry
 
PROPERTY OnlyAHandClears
