SPECIFICATION FormatSpec
CONSTANTS
  NativeCollections = {}
  PostmanDocuments <- Documents
  MaxRounds = 1
INVARIANT
  CredentialsSurviveImport
