SPECIFICATION Spec
CONSTANTS
  Uploads = {"LTR"}
  Form = "IOT"
  Facts = {0, 1}
  FactsOf <- MCFactsOf
  Catalogs <- MCCatalogs
  FilesFor <- MCFilesFor
  Situations <- MCSituations
  Jobs = {j1, j2}
  None = None
  Nothing = Nothing
SYMMETRY MCSymmetry
INVARIANTS
  FiledIsAuthoritative
  
  EvidenceKept
