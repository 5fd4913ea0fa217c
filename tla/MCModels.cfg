\* Two trainings, one after the other, and one process that asks for the model.
CONSTANTS
  t1 = t1  t2 = t2  api = api
  Trainers = {t1, t2}
  Registries = {api}
  OneAtATime = TRUE
  NoFile = NoFile
  NoModel = NoModel
  MaxProgress = 2
  MaxFaults = 2
SPECIFICATION FairSpec
INVARIANTS TypeOK AnswersFromFile RecordedModelIsSaved
PROPERTIES FinishedStays ModelStays EveryRunEnds GoneIsShown
