SPECIFICATION Spec
CONSTANTS
  Documents <- SmallDocuments
  Formats = {"notation", "json", "binary", "xml"}
  Values = {"v", "zero", "like"}
  Lookalikes = {"like"}
INVARIANT
  RoundTripPreserves
