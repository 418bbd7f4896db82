--------------------------- MODULE OneTimePassword ---------------------------
(***************************************************************************)
(* One-time passwords (kpmenulib/otp.go): the settings an entry holds, as  *)
(* an otpauth URL in its field "otp" or in the older fields "TOTP Seed" and*)
(* "TOTP Settings", and the code for a time.                               *)
(*                                                                         *)
(* Machine words are 2 * HalfWord and 2 * HalfInt values wide (2^32 and    *)
(* 2^64 in the program).  The truncated HMAC is a constant function.       *)
(***************************************************************************)
EXTENDS Integers, Sequences

CONSTANTS
    Urls,       \* content -> the parts of the URL it is, numbers parsed
    Settings,   \* content of the form SECS;DIGS -> the two numbers
    Secrets,    \* the contents that decode as base32
    Hash(_, _), \* secret, message -> the 31 bits taken from the HMAC
    HalfWord,   \* int32 holds -HalfWord .. HalfWord - 1
    HalfInt     \* int holds -HalfInt .. HalfInt - 1

OTP          == "otp"
TOTPSEED     == "TOTP Seed"
TOTPSETTINGS == "TOTP Settings"

\* A parameter of a URL is the sequence of values given for it.
ASSUME OtpAssumption ==
    /\ \A c \in DOMAIN Urls :
          /\ Urls[c].labels \in Nat /\ Urls[c].others \in BOOLEAN
          /\ Urls[c].secret \in Seq(STRING)
          /\ Urls[c].digits \in Seq(Int) /\ Urls[c].period \in Seq(Int)
    /\ \A c \in DOMAIN Settings :
          Settings[c].period \in Int /\ Settings[c].digits \in Int

\* pow of otp.go, for exponents that are not negative.
pow(x) == LET f[y \in Nat] == IF y = 0 THEN 1 ELSE x * f[y - 1] IN f

\* int is at least as wide as int32 and at most twice as wide.
ASSUME WidthAssumption ==
    /\ HalfWord \in Nat \ {0} /\ HalfInt \in Nat \ {0}
    /\ \E w \in 0..HalfWord : HalfWord = pow(2)[w]
    /\ HalfWord <= HalfInt /\ HalfInt <= 2 * HalfWord * HalfWord

-----------------------------------------------------------------------------
\* The fields of an entry: keys occur once.
Has(values, key) == \E i \in DOMAIN values : values[i].key = key

Content(values, key) ==
    IF Has(values, key)
       THEN values[CHOOSE i \in DOMAIN values : values[i].key = key].content
       ELSE ""

Precedes(values, key1, key2) ==
    \E i, j \in DOMAIN values :
       i < j /\ values[i].key = key1 /\ values[j].key = key2

\* parseOTPAuth: scheme, host, label and a single value for each parameter.
ValidUrl(c) ==
    /\ c \in DOMAIN Urls
    /\ Urls[c].scheme = "otpauth"
    /\ Urls[c].host = "totp"
    /\ Urls[c].labels <= 2
    /\ \A given \in {Len(Urls[c].secret), Len(Urls[c].digits), Len(Urls[c].period)} :
          given <= 1
    /\ ~Urls[c].others      \* no other parameter is given twice

Given(param, default) == IF param = <<>> THEN default ELSE param[1]

FromUrl(c) == [secret |-> Given(Urls[c].secret, ""),
               period |-> Given(Urls[c].period, 30),
               digits |-> Given(Urls[c].digits, 6)]

\* The older settings; without TOTP Settings period and digits are zero.
FromSeed(values) ==
    LET settings == Content(values, TOTPSETTINGS)
    IN  [secret |-> Content(values, TOTPSEED),
         period |-> IF settings \in DOMAIN Settings THEN Settings[settings].period ELSE 0,
         digits |-> IF settings \in DOMAIN Settings THEN Settings[settings].digits ELSE 0]

\* CreateOTPAuth goes through the fields in order: settings that do not parse end
\* it unless the field otp comes first, and so does a field otp that does not.
NoOTPAuth(values) ==
    \/ /\ Has(values, TOTPSETTINGS)
       /\ Content(values, TOTPSETTINGS) \notin DOMAIN Settings
       /\ ~Precedes(values, OTP, TOTPSETTINGS)
    \/ Has(values, OTP) /\ ~ValidUrl(Content(values, OTP))

\* Mutant of OTPAuth: the older settings come first.
OTPAuthSeedFirst(values) ==
    IF Has(values, OTP) /\ ~Has(values, TOTPSEED)
       THEN FromUrl(Content(values, OTP)) ELSE FromSeed(values)

OTPAuth(values) ==
    IF Has(values, OTP) THEN FromUrl(Content(values, OTP)) ELSE FromSeed(values)

-----------------------------------------------------------------------------
\* Division truncates towards zero.
Step(time, period) ==
    IF period > 0 THEN time \div period ELSE -(time \div (-period))

\* getMessage: the step, or the text that stands for a period of zero.
Message(time, period) == IF period = 0 THEN <<>> ELSE <<Step(time, period)>>

\* The conversion of an int to an int32.
ToWord(n) == ((n + HalfWord) % (2 * HalfWord)) - HalfWord

\* int32(pow(10, digits)): a power below one is zero; one beyond an int converts
\* to the least or the greatest int, whichever the processor chooses.
Moduli(digits) ==
    IF digits < 0 THEN {0}
    ELSE IF pow(10)[digits] < HalfInt THEN {ToWord(pow(10)[digits])}
    ELSE {ToWord(-HalfInt), ToWord(HalfInt - 1)}

Decimal(n, digits) == [i \in 1..digits |-> (n \div pow(10)[digits - i]) % 10]

Failed    == [result |-> "error", code |-> <<>>]
DivByZero == [result |-> "panic", code |-> <<>>]
Created(c) == [result |-> "code", code |-> c]

\* The remainder in decimal, filled up with zeros; too long for the digits asked
\* for, it is an error.
Format(r, modulus, digits) ==
    IF modulus = 0 THEN DivByZero
    ELSE LET n == r % (IF modulus < 0 THEN -modulus ELSE modulus)
         IN  IF digits < 1 \/ n >= pow(10)[digits] THEN Failed
             ELSE Created(Decimal(n, digits))

Create(o, time) ==
    IF o.secret \notin Secrets THEN {Failed}
    ELSE {Format(Hash(o.secret, Message(time, o.period)), m, o.digits) :
             m \in Moduli(o.digits)}

CreateOTP(values, time) ==
    IF NoOTPAuth(values) THEN {Failed} ELSE Create(OTPAuth(values), time)

-----------------------------------------------------------------------------
\* For reference, RFC 6238: the last digits of the hash of the step of time.
TOTP(o, time) ==
    Decimal(Hash(o.secret, <<time \div o.period>>) % pow(10)[o.digits], o.digits)

\* Settings whose arithmetic stays within machine words.
Ordinary(o) ==
    /\ o.secret \in Secrets
    /\ o.period > 0
    /\ o.digits >= 1 /\ pow(10)[o.digits] < HalfWord
=============================================================================
