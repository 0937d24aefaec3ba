\* A modules file that cannot be opened leaves the cursor unallocated.
CONSTANTS
  Lines <- MCLines
  Files <- MCShortFiles
  FileExists = {FALSE}
SPECIFICATION Spec
INVARIANT NoUndefinedBehaviour
CHECK_DEADLOCK FALSE
