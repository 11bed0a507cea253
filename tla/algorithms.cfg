SPECIFICATION Spec
CONSTANTS
  f1 = f1
  f2 = f2
  extra = extra
  Absent = Absent
  Rejected = Rejected
  Texts <- MCTexts
  Jobs <- MCJobs
  StopWords = {"the"}
  MaxPromptTokens = 20
  MaxChunks = 3
  SepTokens = 1
  FallbackTokens = 2
  Unit = 20
  Tracked = {"NOUN", "VERB"}
  Other = "OTHER"
  Manifest = {f1, f2}
  MinTokens = 5
INVARIANTS WindowsTile Lockstep CleanKeepsProse SampleSpread SubsampleEven VocabularyDistinctive
INVARIANTS PromptBudget PassagesWhole NoMeasureDominates StyleMeasured BuiltConforms DryRunSound
CHECK_DEADLOCK FALSE
