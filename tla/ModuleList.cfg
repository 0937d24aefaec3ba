\* The registry: parsing of every present modules file of up to five lines,
\* followed by any sequence of cursor moves, destructions and reloads.  A
\* missing file is the run ModuleList_missing.
CONSTANTS
  Lines <- MCLines
  Files <- MCFiles
  FileExists = {TRUE}
SPECIFICATION Spec
INVARIANT TypeOK
INVARIANT ParsedInFileOrder
PROPERTY TraversalRefined
