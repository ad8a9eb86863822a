CONSTANTS
  Sections = {"Region", "Product Category"}
  MaxCapacity = 3
  MaxEvents = 4
SPECIFICATION Spec
PROPERTY DisclosureObserved
CHECK_DEADLOCK FALSE
