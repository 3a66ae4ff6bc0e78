SPECIFICATION Spec
CONSTANTS
  Vars = {1, 2}
  Sigs <- MCSigs
  ResetSigs <- MCResetSigs
  Bits <- MCBits
  Numbers <- MCNumbers
  Texts = {1, 2}
  Utf8 = {0, 1}
  Duplicate <- MCDuplicate
  ValidPaths = {1}
  ValidSignatures = {0}
  MaxSize <- MCMaxSize
INVARIANTS
  SignaturesDescribe
  ComparisonsAgree
  RoundTrip
