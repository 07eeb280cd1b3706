SPECIFICATION Spec
INVARIANTS
  GlobsAreExact
  VariantsInheritInOrder
  TheHighestLayerWins
  TargetsAreExplained
  NothingIsGuessed
  ChangesAreNoticed
  ReadersOfCallsAgree
  StoreFollowsTheEditor
  MessagesArrive
  DirectivesAreThoseOfTheText
  PreviewsSettle
  CapturesTakeEffect
  ReflectionIsJudged
