CONSTANTS
  Descs = {d1, d2}
  Heap <- MCHeap
  Entries = 2
  Space = 8
  OutSpace = 20
  Low = 16
  Attrs = {"rw", "ro"}
  Arrays <- MCArrays
SPECIFICATION Spec
INVARIANT Owned NoLeak Translates
