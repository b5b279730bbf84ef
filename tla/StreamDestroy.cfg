SPECIFICATION FairSpec
CONSTANTS
  Stream = {"s","t"}
  Event = {"e","f"}
  Job = {"a","b","c","d"}
  Host = {"g","h"}
  None = None
  Programs <- ExampleOnly
PROPERTY DestroyReturns
