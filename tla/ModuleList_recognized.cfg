\* Spec 4.4 says every definition the factory recognises is kept; the
\* switch of parseModuleDefinition keeps only exec, proc and service.
CONSTANTS
  Lines <- MCLines
  Files <- MCShortFiles
  FileExists = {TRUE}
SPECIFICATION Spec
INVARIANT RecognizedModulesKept
