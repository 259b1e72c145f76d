SPECIFICATION FairSpec
CONSTANTS
  Uploads = {"LTR"}
  Form = "IOT"
  Facts = {0, 1}
  FactsOf <- MCFactsOf
  Catalogs <- MCCatalogs
  FilesFor <- MCNoFiles
  Situations <- MCEdited
  Jobs = {j1, j2}
  None = None
  Nothing = Nothing
PROPERTIES
  SubmittedIsFiled
