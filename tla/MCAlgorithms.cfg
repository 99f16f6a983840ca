SPECIFICATION Spec
CONSTANTS
  LimbBits = 4
  ByteBits = 2
  Edges <- EdgeLimbs
  MaxLimbs = 4
  Exponents = {0, 1, 2, 3, 4, 5, 7, 9, 13}
  K <- Constants80
  Initial <- Initial8
  HashOf <- ToyHash
  DTLS_HMAC_BLOCKSIZE = 4
  DTLS_HMAC_DIGEST_SIZE = 2
  KeyLengths = {8, 16, 24, 32}
  TextLengths = {0, 1, 15, 16, 17, 31, 32, 33}
  DataLengths = {0, 1, 13, 14, 15, 30, 31}
  HashLengths = {0, 1, 55, 56, 63, 64, 65, 111, 112, 119, 120, 127, 128, 129}
  SecretLengths = {0, 1, 3, 4, 5, 8}
  OutputLengths = {0, 1, 2, 3, 4, 5, 6}
  CookieLengths = {0, 16, 32}
  IdentityLengths = {0, 1, 31, 32, 33}
  TopWords <- Tops
  MiddleWords <- Middles
  DTLS_MA_N = 2
  DTLS_MA_M = 3
  DTLS_MA_T_BITS = 16
  DTLS_MA_Q_BITS = 20
  DTLS_MA_E_BITS = 2
  DTLS_MA_W = 3
  DTLS_MA_W_MIN = 2
  dtls_ma_common <- MaCommon
  dtls_ma_common_sign <- MaSign
  KeyDraws <- MaKeys
  PublicDraws <- MaPublics
  MaMessages <- MaTexts
  CipherDraws <- MaDraws
  EccWordBits = 1
  ecc_order_m = 193
  ecc_g_point <- Generator
  EccC = 13
  EccFactors <- Factors
  EccSecrets <- KeyPairs
  EccHashes = {0, 1, 100, 193, 255}
  EccNonces <- DrawnNonces
PROPERTIES
  LimbsExact
  IntegersExact
  InversesExist
  NumeralsReadBack
  CcmIsRfc3610
  RecordsOpen
  HashInPieces
  KeysExpand
  HellosAgree
  KeysReadBack
  SignaturesReadBack
  MaRecovers
  CurveExact
CHECK_DEADLOCK FALSE
