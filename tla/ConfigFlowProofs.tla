-------------------------- MODULE ConfigFlowProofs --------------------------
(***************************************************************************)
(* Proofs about ConfigFlow, for any addresses, credentials, CA files and   *)
(* options.                                                                *)
(***************************************************************************)
EXTENDS ConfigFlow, TLAPS

-----------------------------------------------------------------------------
\* Dictionaries.

Keys == {"url", "credentials", "verify_ssl", "ssl_verify_hostname", "ssl_ca_path"}

LEMMA NoDataType == NoData \in Data
BY DEF NoData, Data

\* dict.update, key by key
LEMMA UpdatedFields ==
    ASSUME NEW data \in Data, NEW new \in Data
    PROVE  Updated(data, new) =
             [url |-> Get(new.url, data.url),
              credentials |-> Get(new.credentials, data.credentials),
              verify_ssl |-> Get(new.verify_ssl, data.verify_ssl),
              ssl_verify_hostname |-> Get(new.ssl_verify_hostname, data.ssl_verify_hostname),
              ssl_ca_path |-> Get(new.ssl_ca_path, data.ssl_ca_path)]
<1>1. DOMAIN data = Keys
  BY DEF Data, Keys
<1> QED
  BY <1>1 DEF Updated, Get, Keys, Data

LEMMA UpdatedType ==
    ASSUME NEW data \in Data, NEW new \in Data
    PROVE  Updated(data, new) \in Data
<1>1. /\ Get(new.url, data.url) \in Urls \cup {None}
      /\ Get(new.credentials, data.credentials) \in Credentials \cup {None}
      /\ Get(new.verify_ssl, data.verify_ssl) \in BOOLEAN \cup {None}
      /\ Get(new.ssl_verify_hostname, data.ssl_verify_hostname) \in BOOLEAN \cup {None}
      /\ Get(new.ssl_ca_path, data.ssl_ca_path) \in CaFiles \cup {None}
  BY DEF Get, Data
<1>2. \A url \in Urls \cup {None}, credentials \in Credentials \cup {None},
         verify, hostname \in BOOLEAN \cup {None}, ca \in CaFiles \cup {None} :
        [url |-> url, credentials |-> credentials, verify_ssl |-> verify,
         ssl_verify_hostname |-> hostname, ssl_ca_path |-> ca] \in Data
  BY DEF Data
<1> HIDE DEF Data
<1> QED
  BY <1>1, <1>2, UpdatedFields

LEMMA TestSettingsType ==
    ASSUME NEW data \in Data, data.url \in Urls
    PROVE  TestSettings(data) \in Settings
<1>1. \A value \in BOOLEAN \cup {None} : Get(value, TRUE) \in BOOLEAN
  BY DEF Get
<1> QED
  BY <1>1 DEF TestSettings, Settings, Data

\* Taking over nothing but credentials
LEMMA CredentialsUpdated ==
    ASSUME NEW data \in Data, NEW credentials \in Credentials
    PROVE  LET new == [NoData EXCEPT !.credentials = credentials]
           IN  new \in Data /\ Updated(data, new) = [data EXCEPT !.credentials = credentials]
<1> DEFINE new == [NoData EXCEPT !.credentials = credentials]
<1>1. new = [url |-> None, credentials |-> credentials, verify_ssl |-> None,
             ssl_verify_hostname |-> None, ssl_ca_path |-> None]
  BY DEF NoData
<1>2. new \in Data
  BY <1>1 DEF Data
<1>3. Updated(data, new) =
        [url |-> data.url, credentials |-> credentials, verify_ssl |-> data.verify_ssl,
         ssl_verify_hostname |-> data.ssl_verify_hostname, ssl_ca_path |-> data.ssl_ca_path]
  <2>1. None # credentials
    BY ConstantsAssumption
  <2> QED
    BY <1>1, <1>2, <2>1, UpdatedFields DEF Get
<1>4. data = [url |-> data.url, credentials |-> data.credentials,
              verify_ssl |-> data.verify_ssl,
              ssl_verify_hostname |-> data.ssl_verify_hostname,
              ssl_ca_path |-> data.ssl_ca_path]
  BY DEF Data
<1> QED
  BY <1>2, <1>3, <1>4

\* Taking over another address
LEMMA AddressUpdated ==
    ASSUME NEW data \in Data, data = [NoData EXCEPT !.url = data.url], NEW url \in Urls
    PROVE  LET new == [NoData EXCEPT !.url = url]
           IN  new \in Data /\ Updated(data, new) = new
<1> DEFINE new == [NoData EXCEPT !.url = url]
<1>1. new = [url |-> url, credentials |-> None, verify_ssl |-> None,
             ssl_verify_hostname |-> None, ssl_ca_path |-> None]
  BY DEF NoData
<1>2. new \in Data
  BY <1>1 DEF Data
<1>3. url # None
  BY ConstantsAssumption
<1> QED
  BY <1>1, <1>2, <1>3, UpdatedFields DEF Get, NoData

\* Taking over certificate settings
LEMMA CertificatesUpdated ==
    ASSUME NEW data \in Data, data = [NoData EXCEPT !.url = data.url],
           NEW verify \in BOOLEAN, NEW hostname \in BOOLEAN, NEW ca \in CaFiles \cup {None}
    PROVE  LET new == [url |-> None, credentials |-> None, verify_ssl |-> verify,
                       ssl_verify_hostname |-> hostname, ssl_ca_path |-> ca]
           IN  new \in Data /\ Updated(data, new) = [new EXCEPT !.url = data.url]
<1> DEFINE new == [url |-> None, credentials |-> None, verify_ssl |-> verify,
                   ssl_verify_hostname |-> hostname, ssl_ca_path |-> ca]
<1>1. new \in Data
  BY DEF Data
<1>2. verify # None /\ hostname # None
  BY ConstantsAssumption
<1>3. [new EXCEPT !.url = data.url] =
        [url |-> data.url, credentials |-> None, verify_ssl |-> verify,
         ssl_verify_hostname |-> hostname, ssl_ca_path |-> ca]
  OBVIOUS
<1>4. data.credentials = None /\ data.ssl_ca_path = None
  BY DEF NoData
<1> QED
  BY <1>1, <1>2, <1>3, <1>4, UpdatedFields DEF Get

\* Taking over what is there already
LEMMA UpdatedWithItself ==
    ASSUME NEW data \in Data
    PROVE  Updated(data, data) = data
BY UpdatedFields DEF Get, Data

-----------------------------------------------------------------------------
\* Except clauses.

\* An exception is caught by one of the clauses or by none.
LEMMA CaughtByAClause ==
    ASSUME NEW exception, NEW clauses, NEW n \in {2, 3}, DOMAIN clauses = 1..n
    PROVE  \/ CaughtBy(exception, clauses) = "none"
           \/ \E i \in 1..n : CaughtBy(exception, clauses) = clauses[i]
<1> DEFINE matching == {i \in DOMAIN clauses : IsA(exception, clauses[i])}
<1>1. CASE matching = {}
  BY <1>1 DEF CaughtBy
<1>2. CASE matching # {}
  <2>1. \E i \in matching : \A j \in matching : i <= j
    BY <1>2
  <2>2. (CHOOSE i \in matching : \A j \in matching : i <= j) \in 1..n
    BY <2>1
  <2> QED
    BY <1>2, <2>2 DEF CaughtBy
<1> QED
  BY <1>1, <1>2

LEMMA ConnectionCaught ==
    ASSUME NEW exception
    PROVE  CaughtBy(exception, ConnectionClauses) \in
             {"none", "UntrustedCertificate", "CannotConnect", "AuthenticationRequired"}
<1>1. DOMAIN ConnectionClauses = 1..3
  BY DEF ConnectionClauses
<1> QED
  BY <1>1, CaughtByAClause DEF ConnectionClauses

LEMMA BasicAuthCaught ==
    ASSUME NEW exception
    PROVE  CaughtBy(exception, BasicAuthClauses) \in
             {"none", "InsufficientPrivileges", "AuthenticationRequired"}
<1>1. DOMAIN BasicAuthClauses = 1..2
  BY DEF BasicAuthClauses
<1> QED
  BY <1>1, CaughtByAClause DEF BasicAuthClauses

\* Ancestors satisfies its recursive definition: the table does.
LEMMA AncestorsUnfold ==
    \A class \in DOMAIN Superclass \cup {"Exception"} :
        Ancestors[class] =
          {class} \cup IF class = "Exception" THEN {} ELSE Ancestors[Superclass[class]]
<1> DEFINE
      Classes == DOMAIN Superclass \cup {"Exception"}
      Unfolds(f) == f = [class \in Classes |->
          {class} \cup IF class = "Exception" THEN {} ELSE f[Superclass[class]]]
      Transport == {"TransportError", "Exception"}
      Ours == {"OSIntegrationException", "Exception"}
      Connection == {"OSIntegrationConnectionException"} \cup Ours
      table == [class \in Classes |->
        {class} \cup
          CASE class \in {"AuthenticationException", "AuthorizationException", "NotFoundError",
                          "RequestError", "ConflictError", "ConnectionError"} -> Transport
            [] class \in {"ConnectionTimeout", "LibrarySSLError"} ->
                 {"ConnectionError"} \cup Transport
            [] class \in {"AuthenticationRequired", "UnsupportedVersion", "CannotConnect"} ->
                 Connection
            [] class = "InsufficientPrivileges" -> {"AuthenticationRequired"} \cup Connection
            [] class \in {"SSLError", "ServerError", "ClientError"} ->
                 {"CannotConnect"} \cup Connection
            [] class = "UntrustedCertificate" -> {"SSLError", "CannotConnect"} \cup Connection
            [] class = "OSIntegrationConnectionException" -> Ours
            [] class \in {"TransportError", "OSIntegrationException"} -> {"Exception"}
            [] class = "Exception" -> {}]
<1>1. Unfolds(table)
  BY DEF Superclass
<1>2. Ancestors = CHOOSE f : Unfolds(f)
  BY DEF Ancestors
<1>3. Unfolds(Ancestors)
  BY <1>1, <1>2
<1> QED
  BY <1>3

\* The classes that each of the exceptions belongs to, from the root down.
LEMMA TransportAncestors ==
    /\ Ancestors["Exception"] = {"Exception"}
    /\ Ancestors["TransportError"] = {"TransportError", "Exception"}
    /\ \A class \in {"AuthenticationException", "AuthorizationException", "NotFoundError",
                     "RequestError", "ConflictError", "ConnectionError"} :
          Ancestors[class] = {class, "TransportError", "Exception"}
    /\ \A class \in {"ConnectionTimeout", "LibrarySSLError"} :
          Ancestors[class] = {class, "ConnectionError", "TransportError", "Exception"}
<1>1. Ancestors["Exception"] = {"Exception"}
  BY AncestorsUnfold
<1>2. Ancestors["TransportError"] = {"TransportError", "Exception"}
  BY <1>1, AncestorsUnfold DEF Superclass
<1>3. \A class \in {"AuthenticationException", "AuthorizationException", "NotFoundError",
                    "RequestError", "ConflictError", "ConnectionError"} :
         Ancestors[class] = {class, "TransportError", "Exception"}
  BY <1>2, AncestorsUnfold DEF Superclass
<1>4. \A class \in {"ConnectionTimeout", "LibrarySSLError"} :
         Ancestors[class] = {class, "ConnectionError", "TransportError", "Exception"}
  BY <1>3, AncestorsUnfold DEF Superclass
<1> QED
  BY <1>1, <1>2, <1>3, <1>4

LEMMA OurAncestors ==
    LET base == {"OSIntegrationConnectionException", "OSIntegrationException", "Exception"} IN
    /\ \A class \in {"AuthenticationRequired", "UnsupportedVersion", "CannotConnect"} :
          Ancestors[class] = {class} \cup base
    /\ Ancestors["InsufficientPrivileges"] =
         {"InsufficientPrivileges", "AuthenticationRequired"} \cup base
    /\ Ancestors["ServerError"] = {"ServerError", "CannotConnect"} \cup base
    /\ Ancestors["UntrustedCertificate"] =
         {"UntrustedCertificate", "SSLError", "CannotConnect"} \cup base
<1> DEFINE base == {"OSIntegrationConnectionException", "OSIntegrationException", "Exception"}
<1>1. Ancestors["OSIntegrationException"] = {"OSIntegrationException", "Exception"}
  BY TransportAncestors, AncestorsUnfold DEF Superclass
<1>2. Ancestors["OSIntegrationConnectionException"] = base
  BY <1>1, AncestorsUnfold DEF Superclass
<1>3. \A class \in {"AuthenticationRequired", "UnsupportedVersion", "CannotConnect"} :
         Ancestors[class] = {class} \cup base
  BY <1>2, AncestorsUnfold DEF Superclass
<1>4. Ancestors["InsufficientPrivileges"] =
        {"InsufficientPrivileges", "AuthenticationRequired"} \cup base
  BY <1>3, AncestorsUnfold DEF Superclass
<1>5. /\ Ancestors["ServerError"] = {"ServerError", "CannotConnect"} \cup base
      /\ Ancestors["SSLError"] = {"SSLError", "CannotConnect"} \cup base
  BY <1>3, AncestorsUnfold DEF Superclass
<1>6. Ancestors["UntrustedCertificate"] =
        {"UntrustedCertificate", "SSLError", "CannotConnect"} \cup base
  BY <1>5, AncestorsUnfold DEF Superclass
<1> QED
  BY <1>3, <1>4, <1>5, <1>6

\* Clause i is the first that matches.
Matches(exception, clauses, i) ==
    /\ i \in DOMAIN clauses
    /\ IsA(exception, clauses[i])
    /\ \A j \in DOMAIN clauses : IsA(exception, clauses[j]) => i <= j

LEMMA FirstMatch ==
    ASSUME NEW exception, NEW clauses, NEW i, DOMAIN clauses \subseteq Nat,
           Matches(exception, clauses, i)
    PROVE  CaughtBy(exception, clauses) = clauses[i]
<1> DEFINE matching == {j \in DOMAIN clauses : IsA(exception, clauses[j])}
<1>1. i \in matching /\ \A j \in matching : i <= j
  BY DEF Matches
<1>2. \A k \in matching : (\A j \in matching : k <= j) => k = i
  BY <1>1
<1>3. (CHOOSE k \in matching : \A j \in matching : k <= j) = i
  BY <1>1, <1>2
<1> QED
  BY <1>1, <1>3 DEF CaughtBy

LEMMA NoMatch ==
    ASSUME NEW exception, NEW clauses, \A j \in DOMAIN clauses : ~IsA(exception, clauses[j])
    PROVE  CaughtBy(exception, clauses) = "none"
BY DEF CaughtBy

\* What the converter catches
LEMMA ConverterCatches ==
    /\ \A class \in {"AuthenticationException", "AuthorizationException", "ConnectionTimeout",
                     "LibrarySSLError", "ConnectionError", "TransportError"} :
          CaughtBy(class, ConverterClauses) = class
    /\ \A class \in {"NotFoundError", "RequestError", "ConflictError"} :
          CaughtBy(class, ConverterClauses) = "TransportError"
    /\ \A class \in {"Exception", "UnsupportedVersion"} :
          CaughtBy(class, ConverterClauses) = "none"
<1> DEFINE clauses == ConverterClauses
<1>1. DOMAIN clauses \subseteq Nat
  BY DEF ConverterClauses
<1>2. /\ Matches("AuthenticationException", clauses, 1)
      /\ Matches("AuthorizationException", clauses, 2)
      /\ Matches("ConnectionTimeout", clauses, 3)
      /\ Matches("LibrarySSLError", clauses, 4)
      /\ Matches("ConnectionError", clauses, 5)
  BY TransportAncestors DEF Matches, IsA, ConverterClauses
<1>3. \A class \in {"TransportError", "NotFoundError", "RequestError", "ConflictError"} :
        Matches(class, clauses, 6)
  BY TransportAncestors DEF Matches, IsA, ConverterClauses
<1>4. \A class \in {"Exception", "UnsupportedVersion"}, j \in DOMAIN clauses :
        ~IsA(class, clauses[j])
  BY TransportAncestors, OurAncestors DEF IsA, ConverterClauses
<1>5. /\ CaughtBy("AuthenticationException", clauses) = clauses[1]
      /\ CaughtBy("AuthorizationException", clauses) = clauses[2]
      /\ CaughtBy("ConnectionTimeout", clauses) = clauses[3]
      /\ CaughtBy("LibrarySSLError", clauses) = clauses[4]
      /\ CaughtBy("ConnectionError", clauses) = clauses[5]
  BY <1>1, <1>2, FirstMatch
<1>6. \A class \in {"TransportError", "NotFoundError", "RequestError", "ConflictError"} :
        CaughtBy(class, clauses) = clauses[6]
  BY <1>1, <1>3, FirstMatch
<1>7. \A class \in {"Exception", "UnsupportedVersion"} : CaughtBy(class, clauses) = "none"
  BY <1>4, NoMatch
<1> QED
  BY <1>5, <1>6, <1>7 DEF ConverterClauses

\* What the gateway raises for each fault
LEMMA ConvertedFaults ==
    /\ \A fault \in Refusals :
          Converted(fault) = IF fault.class = "AuthenticationException"
                             THEN "AuthenticationRequired" ELSE "InsufficientPrivileges"
    /\ \A fault \in CertificateFaults : Converted(fault) = "UntrustedCertificate"
    /\ \A fault \in ConnectionFaults : Converted(fault) \in {"ServerError", "CannotConnect"}
    /\ \A fault \in UnexpectedFaults : Converted(fault) = "Exception"
    /\ \A fault \in TooOld : Converted(fault) = "UnsupportedVersion"
<1>1. \A fault \in Refusals :
        Converted(fault) = IF fault.class = "AuthenticationException"
                           THEN "AuthenticationRequired" ELSE "InsufficientPrivileges"
  <2>1. \A fault \in Refusals :
          fault.class \in {"AuthenticationException", "AuthorizationException"}
    BY DEF Refusals, Fault
  <2>2. \A fault \in Refusals : CaughtBy(fault.class, ConverterClauses) = fault.class
    BY <2>1, ConverterCatches
  <2> QED
    BY <2>1, <2>2 DEF Converted
<1>2. \A fault \in CertificateFaults : Converted(fault) = "UntrustedCertificate"
  BY ConverterCatches DEF CertificateFaults, Fault, Converted
<1>3. \A fault \in ConnectionFaults :
        /\ fault.certificate = FALSE
        /\ CaughtBy(fault.class, ConverterClauses) \in
             {"ConnectionTimeout", "ConnectionError", "TransportError"}
  <2>1. \A fault \in ConnectionFaults :
          /\ fault.certificate = FALSE
          /\ fault.class \in {"ConnectionTimeout", "ConnectionError", "TransportError",
                              "NotFoundError", "RequestError", "ConflictError"}
    BY DEF ConnectionFaults, Fault
  <2> QED
    BY <2>1, ConverterCatches
<1>4. \A fault \in ConnectionFaults : Converted(fault) \in {"ServerError", "CannotConnect"}
  BY <1>3 DEF Converted
<1>5. /\ \A fault \in UnexpectedFaults : Converted(fault) = "Exception"
      /\ \A fault \in TooOld : Converted(fault) = "UnsupportedVersion"
  BY ConverterCatches DEF UnexpectedFaults, TooOld, Fault, Converted
<1> QED
  BY <1>1, <1>2, <1>4, <1>5

\* What the steps of the flow then catch
LEMMA ConnectionCatches ==
    /\ \A exception \in {"Exception", "UnsupportedVersion"} :
          CaughtBy(exception, ConnectionClauses) = "none"
    /\ CaughtBy("UntrustedCertificate", ConnectionClauses) = "UntrustedCertificate"
    /\ \A exception \in {"ServerError", "CannotConnect"} :
          CaughtBy(exception, ConnectionClauses) = "CannotConnect"
    /\ \A exception \in {"InsufficientPrivileges", "AuthenticationRequired"} :
          CaughtBy(exception, ConnectionClauses) = "AuthenticationRequired"
<1> DEFINE clauses == ConnectionClauses
<1>1. DOMAIN clauses \subseteq Nat
  BY DEF ConnectionClauses
<1>2. \A exception \in {"Exception", "UnsupportedVersion"}, j \in DOMAIN clauses :
        ~IsA(exception, clauses[j])
  BY OurAncestors, TransportAncestors DEF IsA, ConnectionClauses
<1>3. Matches("UntrustedCertificate", clauses, 1)
  BY OurAncestors DEF Matches, IsA, ConnectionClauses
<1>4. \A exception \in {"ServerError", "CannotConnect"} : Matches(exception, clauses, 2)
  BY OurAncestors DEF Matches, IsA, ConnectionClauses
<1>5. \A exception \in {"InsufficientPrivileges", "AuthenticationRequired"} :
        Matches(exception, clauses, 3)
  BY OurAncestors DEF Matches, IsA, ConnectionClauses
<1>6. \A exception \in {"Exception", "UnsupportedVersion"} :
        CaughtBy(exception, clauses) = "none"
  BY <1>2, NoMatch
<1>7. CaughtBy("UntrustedCertificate", clauses) = clauses[1]
  BY <1>1, <1>3, FirstMatch
<1>8. \A exception \in {"ServerError", "CannotConnect"} :
        CaughtBy(exception, clauses) = clauses[2]
  BY <1>1, <1>4, FirstMatch
<1>9. \A exception \in {"InsufficientPrivileges", "AuthenticationRequired"} :
        CaughtBy(exception, clauses) = clauses[3]
  BY <1>1, <1>5, FirstMatch
<1> QED
  BY <1>6, <1>7, <1>8, <1>9 DEF ConnectionClauses

LEMMA BasicAuthCatches ==
    /\ \A exception \in {"Exception", "UnsupportedVersion", "UntrustedCertificate",
                         "ServerError", "CannotConnect"} :
          CaughtBy(exception, BasicAuthClauses) = "none"
    /\ \A exception \in {"InsufficientPrivileges", "AuthenticationRequired"} :
          CaughtBy(exception, BasicAuthClauses) = exception
<1> DEFINE clauses == BasicAuthClauses
<1>1. DOMAIN clauses \subseteq Nat
  BY DEF BasicAuthClauses
<1>2. \A exception \in {"Exception", "UnsupportedVersion", "UntrustedCertificate",
                        "ServerError", "CannotConnect"}, j \in DOMAIN clauses :
        ~IsA(exception, clauses[j])
  BY OurAncestors, TransportAncestors DEF IsA, BasicAuthClauses
<1>3. Matches("InsufficientPrivileges", clauses, 1)
  BY OurAncestors DEF Matches, IsA, BasicAuthClauses
<1>4. Matches("AuthenticationRequired", clauses, 2)
  BY OurAncestors DEF Matches, IsA, BasicAuthClauses
<1>5. \A exception \in {"Exception", "UnsupportedVersion", "UntrustedCertificate",
                        "ServerError", "CannotConnect"} :
        CaughtBy(exception, clauses) = "none"
  BY <1>2, NoMatch
<1>6. /\ CaughtBy("InsufficientPrivileges", clauses) = clauses[1]
      /\ CaughtBy("AuthenticationRequired", clauses) = clauses[2]
  BY <1>1, <1>3, <1>4, FirstMatch
<1> QED
  BY <1>5, <1>6 DEF BasicAuthClauses

-----------------------------------------------------------------------------
\* The inductive invariant.

\* One flow at a time, for an entry to come or for the one that is there.
FlowFitsEntry ==
    /\ source = "user" => entry = None
    /\ source = "reauth" => entry # None
    /\ source = "none" => asked = None /\ prospective = NoData
    /\ step \in {"user", "certificate_issues"} => source = "user"
    /\ step = "started" => source = "reauth"

\* The flow has an address before it has anything else.
AddressComesFirst ==
    /\ step \in {"user", "certificate_issues"} =>
         prospective = [NoData EXCEPT !.url = prospective.url]
    /\ step \in {"certificate_issues", "basic_auth"} => prospective.url \in Urls
    /\ entry # None => entry.data.url \in Urls

\* What a successful test makes of the flow's data
Kept == IF step = "user" THEN prospective ELSE Updated(prospective, input)

\* What is tested is what would be kept.
TestsWhatIsKept == asked # None => asked = TestSettings(Kept)

\* A re-authentication works on the data of the entry, which has credentials.
ReauthIsOfEntry ==
    source = "reauth" /\ (asked # None \/ step = "basic_auth") =>
        /\ prospective = entry.data
        /\ entry.data.credentials # None
        /\ step = "started" => Kept = prospective
        /\ asked # None => \E credentials \in Credentials :
                              Kept = [prospective EXCEPT !.credentials = credentials]

\* verify_ssl and ssl_verify_hostname come from one form.
Paired(data) == data.verify_ssl = None <=> data.ssl_verify_hostname = None

VerificationIsWhole ==
    Paired(prospective) /\ Paired(input) /\ (entry # None => Paired(entry.data))

Inv ==
    /\ VerificationIsWhole
    /\ TypeOK
    /\ FlowFitsEntry
    /\ AddressComesFirst
    /\ TestsWhatIsKept
    /\ ReauthIsOfEntry
    /\ EntryIsTested

LEMMA PairedUpdated ==
    ASSUME NEW data \in Data, NEW new \in Data, Paired(data), Paired(new)
    PROVE  Paired(Updated(data, new))
BY UpdatedFields DEF Paired, Get

LEMMA PairedNoData == Paired(NoData)
BY DEF Paired, NoData

LEMMA InitInv == Init => Inv
<1> SUFFICES ASSUME Init
             PROVE  Inv
  OBVIOUS
<1> USE DEF Init
<1>1. TypeOK
  BY NoDataType DEF TypeOK
<1>2. FlowFitsEntry /\ AddressComesFirst /\ TestsWhatIsKept /\ ReauthIsOfEntry
  BY DEF FlowFitsEntry, AddressComesFirst, TestsWhatIsKept, ReauthIsOfEntry
<1>3. EntryIsTested
  BY DEF EntryIsTested
<1>4. VerificationIsWhole
  BY PairedNoData DEF VerificationIsWhole
<1> QED
  BY <1>1, <1>2, <1>3, <1>4 DEF Inv

-----------------------------------------------------------------------------
\* The flow ends.

LEMMA FlowEndsInv ==
    ASSUME Inv, FlowEnds, UNCHANGED <<accepted, entry, reload, tested>>
    PROVE  Inv'
<1> USE DEF FlowEnds, Inv
<1>1. TypeOK'
  BY NoDataType DEF TypeOK
<1>2. FlowFitsEntry' /\ AddressComesFirst' /\ TestsWhatIsKept' /\ ReauthIsOfEntry'
  BY DEF FlowFitsEntry, AddressComesFirst, TestsWhatIsKept, ReauthIsOfEntry
<1>3. EntryIsTested' /\ VerificationIsWhole'
  BY PairedNoData DEF EntryIsTested, VerificationIsWhole
<1> QED
  BY <1>1, <1>2, <1>3

\* Completed with what was tested
LEMMA CompleteInv ==
    ASSUME Inv, asked # None, NEW data \in Data, Paired(data), asked = TestSettings(data),
           Complete(data)
    PROVE  Inv'
<1> USE DEF Inv
<1>1. /\ entry' = [data |-> data,
                   options |-> IF source = "reauth" THEN entry.options ELSE DefaultOptions]
      /\ reload' = (source = "reauth") /\ tested' = asked /\ FlowEnds
      /\ accepted' = accepted
  BY DEF Complete
<1>2. entry'.data = data
  BY <1>1
<1>3. data.url \in Urls
  <2>1. asked \in Settings
    BY DEF TypeOK
  <2> QED
    BY <2>1 DEF TestSettings, Settings
<1>4. TypeOK'
  <2>1. entry' \in [data : Data, options : Options]
    <3>1. CASE source = "reauth"
      BY <1>1, <3>1 DEF TypeOK, FlowFitsEntry
    <3>2. CASE source # "reauth"
      BY <1>1, <3>2, ConstantsAssumption
    <3> QED
      BY <3>1, <3>2
  <2>2. reload' \in BOOLEAN
    BY <1>1
  <2>3. accepted' \subseteq Credentials \cup {None} /\ tested' \in Settings \cup {None}
    BY <1>1 DEF TypeOK
  <2> QED
    BY <1>1, <2>1, <2>2, <2>3, NoDataType DEF TypeOK, FlowEnds
<1>5. FlowFitsEntry' /\ AddressComesFirst' /\ TestsWhatIsKept' /\ ReauthIsOfEntry'
  BY <1>1, <1>2, <1>3
  DEF FlowEnds, FlowFitsEntry, AddressComesFirst, TestsWhatIsKept, ReauthIsOfEntry
<1>6. EntryIsTested' /\ VerificationIsWhole'
  BY <1>1, <1>2, PairedNoData DEF EntryIsTested, TestSettings, VerificationIsWhole, FlowEnds
<1> QED
  BY <1>4, <1>5, <1>6

\* An exception that nobody catches
LEMMA StepRaisesInv ==
    ASSUME Inv, source # "none", StepRaises
    PROVE  Inv'
<1>1. CASE step = "started"
  BY <1>1, FlowEndsInv DEF StepRaises
<1>2. CASE step # "started"
  <2> USE <1>2 DEF StepRaises, Form, Inv
  <2>1. TypeOK'
    BY NoDataType DEF TypeOK
  <2>2. FlowFitsEntry' /\ AddressComesFirst' /\ TestsWhatIsKept' /\ ReauthIsOfEntry'
    BY DEF FlowFitsEntry, AddressComesFirst, TestsWhatIsKept, ReauthIsOfEntry
  <2>3. EntryIsTested' /\ VerificationIsWhole'
    BY PairedNoData DEF EntryIsTested, VerificationIsWhole
  <2> QED
    BY <2>1, <2>2, <2>3
<1> QED
  BY <1>1, <1>2

\* A form is shown that the flow has an address for.
LEMMA FormInv ==
    ASSUME Inv, source # "none",
           NEW shown \in {"user", "certificate_issues", "basic_auth"},
           NEW complaint \in {"none", "cannot_connect", "untrusted_certificate",
                             "insufficient_privileges", "invalid_basic_auth"},
           Form(shown, complaint),
           cause' \in Faults \cup TooOld \cup {None},
           prospective' \in Data, Paired(prospective'),
           shown # "user" => prospective'.url \in Urls,
           shown # "basic_auth" =>
              source = "user" /\ prospective' = [NoData EXCEPT !.url = prospective'.url],
           source = "reauth" => prospective' = entry.data /\ entry.data.credentials # None
    PROVE  Inv'
<1> USE DEF Form, Inv
<1>1. TypeOK'
  BY NoDataType DEF TypeOK
<1>2. FlowFitsEntry'
  BY DEF FlowFitsEntry
<1>3. AddressComesFirst' /\ TestsWhatIsKept' /\ ReauthIsOfEntry'
  BY DEF AddressComesFirst, TestsWhatIsKept, ReauthIsOfEntry
<1>4. EntryIsTested' /\ VerificationIsWhole'
  BY PairedNoData DEF EntryIsTested, VerificationIsWhole
<1> QED
  BY <1>1, <1>2, <1>3, <1>4

-----------------------------------------------------------------------------
\* The steps.

LEMMA KeptType ==
    ASSUME TypeOK
    PROVE  Kept \in Data
BY UpdatedType DEF Kept, TypeOK

\* A test asks for something: the address is known by then.
LEMMA KeptUrl ==
    ASSUME TypeOK, TestsWhatIsKept, asked # None
    PROVE  Kept.url \in Urls
BY DEF TypeOK, TestsWhatIsKept, TestSettings, Settings

LEMMA UserSubmitsInv ==
    ASSUME Inv, UserSubmits
    PROVE  Inv'
<1> USE DEF Inv
<1>1. PICK url \in Urls :
        /\ input' = [NoData EXCEPT !.url = url]
        /\ prospective' = Updated(prospective, input')
        /\ asked' = TestSettings(input')
  BY DEF UserSubmits
<1>2. input' \in Data /\ prospective' = input' /\ input'.url = url
  BY <1>1, AddressUpdated DEF UserSubmits, TypeOK, AddressComesFirst, NoData
<1>3. step = "user" /\ UNCHANGED <<accepted, source, step, error, entry, reload, tested, cause>>
  BY DEF UserSubmits
<1>4. TypeOK'
  BY <1>1, <1>2, <1>3, TestSettingsType DEF TypeOK
<1>5. AddressComesFirst' /\ TestsWhatIsKept'
  BY <1>1, <1>2, <1>3 DEF AddressComesFirst, TestsWhatIsKept, Kept
<1>6. FlowFitsEntry' /\ ReauthIsOfEntry' /\ EntryIsTested'
  BY <1>3 DEF FlowFitsEntry, ReauthIsOfEntry, EntryIsTested
<1>7. VerificationIsWhole'
  BY <1>1, <1>2, <1>3 DEF VerificationIsWhole, Paired, NoData
<1> QED
  BY <1>4, <1>5, <1>6, <1>7

LEMMA CertificateSubmitsInv ==
    ASSUME Inv, CertificateSubmits
    PROVE  Inv'
<1> USE DEF Inv
<1>1. PICK verify \in BOOLEAN, hostname \in BOOLEAN, ca \in CaFiles \cup {None} :
        /\ input' = [url |-> None, credentials |-> None, verify_ssl |-> verify,
                     ssl_verify_hostname |-> hostname, ssl_ca_path |-> ca]
        /\ asked' = TestSettings([input' EXCEPT !.url = prospective.url])
  BY DEF CertificateSubmits
<1>2. /\ step = "certificate_issues"
      /\ UNCHANGED <<accepted, source, step, error, prospective, entry, reload, tested, cause>>
  BY DEF CertificateSubmits
<1>3. /\ input' \in Data
      /\ Updated(prospective, input') = [input' EXCEPT !.url = prospective.url]
  BY <1>1, <1>2, CertificatesUpdated DEF TypeOK, AddressComesFirst
<1>4. asked' \in Settings
  <2>1. Updated(prospective, input') \in Data
    BY <1>3, UpdatedType DEF TypeOK
  <2>2. [input' EXCEPT !.url = prospective.url].url = prospective.url
    BY <1>3 DEF Data
  <2> QED
    BY <1>1, <1>2, <1>3, <2>1, <2>2, TestSettingsType DEF AddressComesFirst
<1>5. TypeOK'
  BY <1>2, <1>3, <1>4 DEF TypeOK
<1>6. TestsWhatIsKept'
  BY <1>1, <1>2, <1>3 DEF TestsWhatIsKept, Kept
<1>7. FlowFitsEntry' /\ AddressComesFirst' /\ ReauthIsOfEntry' /\ EntryIsTested'
  BY <1>2 DEF FlowFitsEntry, AddressComesFirst, ReauthIsOfEntry, EntryIsTested
<1>8. VerificationIsWhole'
  BY <1>1, <1>2, ConstantsAssumption DEF VerificationIsWhole, Paired
<1> QED
  BY <1>5, <1>6, <1>7, <1>8

LEMMA BasicAuthSubmitsInv ==
    ASSUME Inv, BasicAuthSubmits
    PROVE  Inv'
<1> USE DEF Inv
<1>1. PICK credentials \in Credentials :
        /\ input' = [NoData EXCEPT !.credentials = credentials]
        /\ asked' = TestSettings(Updated(prospective, input'))
  BY DEF BasicAuthSubmits
<1>2. /\ step = "basic_auth"
      /\ UNCHANGED <<accepted, source, step, error, prospective, entry, reload, tested, cause>>
  BY DEF BasicAuthSubmits
<1>3. /\ input' \in Data
      /\ Updated(prospective, input') = [prospective EXCEPT !.credentials = credentials]
  BY <1>1, CredentialsUpdated DEF TypeOK
<1>4. asked' \in Settings
  <2>1. Updated(prospective, input') \in Data
    BY <1>3, UpdatedType DEF TypeOK
  <2>2. [prospective EXCEPT !.credentials = credentials].url = prospective.url
    BY DEF TypeOK, Data
  <2> QED
    BY <1>1, <1>2, <1>3, <2>1, <2>2, TestSettingsType DEF AddressComesFirst
<1>5. TypeOK'
  BY <1>2, <1>3, <1>4 DEF TypeOK
<1>6. TestsWhatIsKept'
  BY <1>1, <1>2 DEF TestsWhatIsKept, Kept
<1>7. ReauthIsOfEntry'
  BY <1>2, <1>3 DEF ReauthIsOfEntry, Kept
<1>8. FlowFitsEntry' /\ AddressComesFirst' /\ EntryIsTested'
  BY <1>2 DEF TypeOK, FlowFitsEntry, AddressComesFirst, EntryIsTested
<1>9. VerificationIsWhole'
  BY <1>1, <1>2 DEF VerificationIsWhole, Paired, NoData
<1> QED
  BY <1>5, <1>6, <1>7, <1>8, <1>9

\* The first test of a re-authentication is of the entry as it is.
LEMMA ReauthBeginsInv ==
    ASSUME Inv, ReauthBegins
    PROVE  Inv'
<1> USE DEF Inv
<1>1. /\ step = "started" /\ entry.data.credentials # None
      /\ prospective' = entry.data /\ input' = entry.data
      /\ asked' = TestSettings(entry.data)
      /\ UNCHANGED <<accepted, source, step, error, entry, reload, tested, cause>>
  BY DEF ReauthBegins
<1>2. entry # None /\ entry.data \in Data /\ entry.data.url \in Urls
  BY <1>1 DEF FlowFitsEntry, AddressComesFirst, TypeOK
<1>3. TypeOK'
  BY <1>1, <1>2, TestSettingsType DEF TypeOK
<1>4. Updated(prospective', input') = prospective'
  BY <1>1, <1>2, UpdatedWithItself
<1>5. TestsWhatIsKept'
  BY <1>1, <1>4 DEF TestsWhatIsKept, Kept
<1>6. ReauthIsOfEntry'
  <2>1. entry.data = [entry.data EXCEPT !.credentials = entry.data.credentials]
    BY <1>2 DEF Data
  <2>2. entry.data.credentials \in Credentials
    BY <1>1, <1>2 DEF Data
  <2> QED
    BY <1>1, <1>4, <2>1, <2>2 DEF ReauthIsOfEntry, Kept
<1>7. FlowFitsEntry' /\ AddressComesFirst' /\ EntryIsTested'
  BY <1>1 DEF FlowFitsEntry, AddressComesFirst, EntryIsTested
<1>8. VerificationIsWhole'
  BY <1>1, <1>2 DEF VerificationIsWhole
<1> QED
  BY <1>3, <1>5, <1>6, <1>7, <1>8

-----------------------------------------------------------------------------
\* The answers.

\* A test that failed is over: an exception that is not caught, or a form.
LEMMA FailsCases ==
    ASSUME Inv, NEW clauses, NEW forms, NEW complaints, NEW kept,
           Fails(clauses, forms, complaints, kept)
    PROVE  \/ StepRaises
           \/ \E exception :
                LET clause == CaughtBy(exception, clauses) IN
                /\ clause # "none"
                /\ Form(forms[clause], complaints[clause])
                /\ cause' \in Faults \cup TooOld \cup {None}
                /\ prospective' = IF clause \in kept THEN Updated(prospective, input)
                                  ELSE prospective
<1>1. PICK fault \in TestFaults(asked) :
        LET clause == CaughtBy(Converted(fault), clauses) IN
        IF clause = "none" THEN StepRaises
        ELSE /\ Form(forms[clause], complaints[clause])
             /\ cause' = fault
             /\ prospective' = IF clause \in kept THEN Updated(prospective, input)
                               ELSE prospective
  BY DEF Fails
<1>2. fault \in Faults \cup TooOld
  BY DEF TestFaults, Faults
<1> QED
  BY <1>1, <1>2

LEMMA UserAnsweredInv ==
    ASSUME Inv, UserAnswered
    PROVE  Inv'
<1> DEFINE complaints == [UntrustedCertificate |-> "none", CannotConnect |-> "cannot_connect",
                          AuthenticationRequired |-> "none"]
<1>1. /\ step = "user" /\ asked # None
      /\ \/ Complete(prospective)
         \/ Fails(ConnectionClauses, ConnectionForms, complaints, {})
  BY DEF UserAnswered
<1>2. /\ source = "user" /\ prospective \in Data /\ prospective.url \in Urls
      /\ prospective = [NoData EXCEPT !.url = prospective.url]
      /\ asked = TestSettings(prospective) /\ Paired(prospective)
  <2>1. Kept = prospective
    BY <1>1 DEF Kept
  <2> QED
    BY <1>1, <2>1, KeptUrl
    DEF Inv, TypeOK, FlowFitsEntry, AddressComesFirst, TestsWhatIsKept, VerificationIsWhole
<1>3. CASE Complete(prospective)
  BY <1>1, <1>2, <1>3, CompleteInv
<1>4. CASE Fails(ConnectionClauses, ConnectionForms, complaints, {})
  <2>1. CASE StepRaises
    BY <1>2, <2>1, StepRaisesInv
  <2>2. ASSUME NEW exception,
               CaughtBy(exception, ConnectionClauses) # "none",
               Form(ConnectionForms[CaughtBy(exception, ConnectionClauses)],
                    complaints[CaughtBy(exception, ConnectionClauses)]),
               cause' \in Faults \cup TooOld \cup {None},
               prospective' = prospective
        PROVE  Inv'
    <3> DEFINE clause == CaughtBy(exception, ConnectionClauses)
    <3>1. clause \in {"UntrustedCertificate", "CannotConnect", "AuthenticationRequired"}
      BY <2>2, ConnectionCaught
    <3>2. /\ ConnectionForms[clause] \in {"user", "certificate_issues", "basic_auth"}
          /\ complaints[clause] \in {"none", "cannot_connect"}
      BY <3>1 DEF ConnectionForms
    <3> QED
      BY <1>2, <2>2, <3>2, FormInv
  <2> QED
    BY <1>4, <2>1, <2>2, FailsCases
<1> QED
  BY <1>1, <1>3, <1>4

LEMMA CertificateAnsweredInv ==
    ASSUME Inv, CertificateAnswered
    PROVE  Inv'
<1> DEFINE complaints == [UntrustedCertificate |-> "untrusted_certificate",
                          CannotConnect |-> "cannot_connect",
                          AuthenticationRequired |-> "none"]
           kept == {"AuthenticationRequired"}
<1>1. /\ step = "certificate_issues" /\ asked # None
      /\ \/ Complete(Updated(prospective, input))
         \/ Fails(ConnectionClauses, ConnectionForms, complaints, kept)
  BY DEF CertificateAnswered
<1>2. /\ source = "user" /\ prospective \in Data /\ prospective.url \in Urls
      /\ prospective = [NoData EXCEPT !.url = prospective.url] /\ Paired(prospective)
  BY <1>1 DEF Inv, TypeOK, FlowFitsEntry, AddressComesFirst, VerificationIsWhole
<1>3. /\ Updated(prospective, input) \in Data /\ Updated(prospective, input).url \in Urls
      /\ asked = TestSettings(Updated(prospective, input))
      /\ Paired(Updated(prospective, input))
  <2>1. Kept = Updated(prospective, input)
    BY <1>1 DEF Kept
  <2>2. Paired(Updated(prospective, input))
    BY PairedUpdated DEF Inv, TypeOK, VerificationIsWhole
  <2> QED
    BY <1>1, <2>1, <2>2, KeptUrl, KeptType DEF Inv, TestsWhatIsKept
<1>4. CASE Complete(Updated(prospective, input))
  BY <1>1, <1>3, <1>4, CompleteInv
<1>5. CASE Fails(ConnectionClauses, ConnectionForms, complaints, kept)
  <2>1. CASE StepRaises
    BY <1>2, <2>1, StepRaisesInv
  <2>2. ASSUME NEW exception,
               CaughtBy(exception, ConnectionClauses) # "none",
               Form(ConnectionForms[CaughtBy(exception, ConnectionClauses)],
                    complaints[CaughtBy(exception, ConnectionClauses)]),
               cause' \in Faults \cup TooOld \cup {None},
               prospective' = IF CaughtBy(exception, ConnectionClauses) \in kept
                              THEN Updated(prospective, input) ELSE prospective
        PROVE  Inv'
    <3> DEFINE clause == CaughtBy(exception, ConnectionClauses)
    <3>1. clause \in {"UntrustedCertificate", "CannotConnect", "AuthenticationRequired"}
      BY <2>2, ConnectionCaught
    <3>2. /\ ConnectionForms[clause] \in {"user", "certificate_issues", "basic_auth"}
          /\ complaints[clause] \in {"none", "cannot_connect", "untrusted_certificate"}
          /\ ConnectionForms[clause] # "basic_auth" => clause \notin kept
      BY <3>1 DEF ConnectionForms
    <3>3. prospective' \in Data /\ prospective'.url \in Urls /\ Paired(prospective')
      BY <1>2, <1>3, <2>2
    <3> QED
      BY <1>2, <2>2, <3>2, <3>3, FormInv
  <2> QED
    BY <1>5, <2>1, <2>2, FailsCases
<1> QED
  BY <1>1, <1>4, <1>5

LEMMA BasicAuthAnsweredInv ==
    ASSUME Inv, BasicAuthAnswered
    PROVE  Inv'
<1> DEFINE forms == [InsufficientPrivileges |-> "basic_auth",
                     AuthenticationRequired |-> "basic_auth"]
           complaints == [InsufficientPrivileges |-> "insufficient_privileges",
                          AuthenticationRequired |-> "invalid_basic_auth"]
<1>1. /\ step \in {"basic_auth", "started"} /\ asked # None
      /\ \/ Complete(Updated(prospective, input))
         \/ Fails(BasicAuthClauses, forms, complaints, {})
  BY DEF BasicAuthAnswered
<1>2. /\ source # "none" /\ prospective \in Data /\ prospective.url \in Urls
      /\ source = "reauth" => prospective = entry.data /\ entry.data.credentials # None
      /\ Paired(prospective)
  BY <1>1 DEF Inv, TypeOK, FlowFitsEntry, AddressComesFirst, ReauthIsOfEntry,
              VerificationIsWhole
<1>3. /\ Updated(prospective, input) \in Data
      /\ asked = TestSettings(Updated(prospective, input))
      /\ Paired(Updated(prospective, input))
  <2>1. Kept = Updated(prospective, input)
    BY <1>1 DEF Kept
  <2>2. Paired(Updated(prospective, input))
    BY PairedUpdated DEF Inv, TypeOK, VerificationIsWhole
  <2> QED
    BY <1>1, <2>1, <2>2, KeptType DEF Inv, TestsWhatIsKept
<1>4. CASE Complete(Updated(prospective, input))
  BY <1>1, <1>3, <1>4, CompleteInv
<1>5. CASE Fails(BasicAuthClauses, forms, complaints, {})
  <2>1. CASE StepRaises
    BY <1>2, <2>1, StepRaisesInv
  <2>2. ASSUME NEW exception,
               CaughtBy(exception, BasicAuthClauses) # "none",
               Form(forms[CaughtBy(exception, BasicAuthClauses)],
                    complaints[CaughtBy(exception, BasicAuthClauses)]),
               cause' \in Faults \cup TooOld \cup {None},
               prospective' = prospective
        PROVE  Inv'
    <3> DEFINE clause == CaughtBy(exception, BasicAuthClauses)
    <3>1. clause \in {"InsufficientPrivileges", "AuthenticationRequired"}
      BY <2>2, BasicAuthCaught
    <3>2. /\ forms[clause] = "basic_auth"
          /\ complaints[clause] \in {"insufficient_privileges", "invalid_basic_auth"}
      BY <3>1
    <3> QED
      BY <1>2, <2>2, <3>2, FormInv
  <2> QED
    BY <1>5, <2>1, <2>2, FailsCases
<1> QED
  BY <1>1, <1>4, <1>5

-----------------------------------------------------------------------------
\* The rest.

LEMMA OthersInv ==
    ASSUME Inv,
           \/ UserStarts \/ ReauthStarts \/ ReauthAborts \/ FlowAbandoned
           \/ OptionsSaved \/ Reloaded \/ AcceptedChanges \/ UNCHANGED vars
    PROVE  Inv'
<1> USE DEF Inv, flow, TypeOK, FlowFitsEntry, AddressComesFirst, TestsWhatIsKept, Kept,
            ReauthIsOfEntry, EntryIsTested, VerificationIsWhole
<1>1. CASE UserStarts \/ ReauthStarts
  <2>1. NoData = [NoData EXCEPT !.url = NoData.url]
    BY DEF NoData
  <2> QED
    BY <1>1, <2>1 DEF UserStarts, ReauthStarts
<1>2. CASE ReauthAborts \/ FlowAbandoned
  BY <1>2, FlowEndsInv DEF ReauthAborts, FlowAbandoned
<1>3. CASE OptionsSaved
  <2>1. PICK o \in Options : entry' = [entry EXCEPT !.options = o]
    BY <1>3 DEF OptionsSaved
  <2>2. entry'.data = entry.data /\ entry' \in [data : Data, options : Options]
    BY <1>3, <2>1 DEF OptionsSaved
  <2>3. entry # None /\ reload' = TRUE /\ UNCHANGED <<accepted, flow, tested, cause>>
    BY <1>3 DEF OptionsSaved
  <2>4. TypeOK'
    BY <2>2, <2>3
  <2>5. FlowFitsEntry' /\ AddressComesFirst' /\ EntryIsTested'
    <3>1. source # "user" /\ entry' # None
      BY <2>2, <2>3, EntryAssumption
    <3> QED
      BY <2>2, <2>3, <3>1
  <2>6. TestsWhatIsKept' /\ ReauthIsOfEntry' /\ VerificationIsWhole'
    BY <2>2, <2>3
  <2> QED
    BY <2>4, <2>5, <2>6
<1>4. CASE Reloaded \/ AcceptedChanges
  BY <1>4 DEF Reloaded, AcceptedChanges
<1>5. CASE UNCHANGED vars
  BY <1>5 DEF vars
<1> QED
  BY <1>1, <1>2, <1>3, <1>4, <1>5

LEMMA NextInv ==
    ASSUME Inv, [Next]_vars
    PROVE  Inv'
BY UserSubmitsInv, UserAnsweredInv, CertificateSubmitsInv, CertificateAnsweredInv,
   BasicAuthSubmitsInv, BasicAuthAnsweredInv, ReauthBeginsInv, OthersInv DEF Next

LEMMA SpecInv == Spec => []Inv
BY InitInv, NextInv, PTL DEF Spec

-----------------------------------------------------------------------------
\* Forms and faults.

\* A flow that has not got to a test yet has nothing to complain of.
FaultsFit ==
    /\ FormsFitTheFault
    /\ source = "none" \/ step = "started" => cause = None

LEMMA ConnectionFits ==
    ASSUME NEW fault \in Faults \cup TooOld
    PROVE  LET clause == CaughtBy(Converted(fault), ConnectionClauses) IN
           /\ clause = "UntrustedCertificate" => fault \in CertificateFaults
           /\ clause = "CannotConnect" => fault \in ConnectionFaults
           /\ clause = "AuthenticationRequired" => fault \in Refusals
<1>1. CASE fault \in Refusals
  BY <1>1, ConvertedFaults, ConnectionCatches
<1>2. CASE fault \in CertificateFaults
  BY <1>2, ConvertedFaults, ConnectionCatches
<1>3. CASE fault \in ConnectionFaults
  BY <1>3, ConvertedFaults, ConnectionCatches
<1>4. CASE fault \in UnexpectedFaults \cup TooOld
  BY <1>4, ConvertedFaults, ConnectionCatches
<1> QED
  BY <1>1, <1>2, <1>3, <1>4 DEF Faults

LEMMA BasicAuthFits ==
    ASSUME NEW fault \in Faults \cup TooOld
    PROVE  LET clause == CaughtBy(Converted(fault), BasicAuthClauses) IN
           clause # "none" =>
             /\ fault \in Refusals
             /\ clause = IF fault.class = "AuthenticationException"
                         THEN "AuthenticationRequired" ELSE "InsufficientPrivileges"
<1>1. CASE fault \in Refusals
  BY <1>1, ConvertedFaults, BasicAuthCatches
<1>2. CASE fault \in CertificateFaults
  BY <1>2, ConvertedFaults, BasicAuthCatches
<1>3. CASE fault \in ConnectionFaults
  BY <1>3, ConvertedFaults, BasicAuthCatches
<1>4. CASE fault \in UnexpectedFaults \cup TooOld
  BY <1>4, ConvertedFaults, BasicAuthCatches
<1> QED
  BY <1>1, <1>2, <1>3, <1>4 DEF Faults

LEMMA FailsOfFault ==
    ASSUME NEW clauses, NEW forms, NEW complaints, NEW kept,
           Fails(clauses, forms, complaints, kept)
    PROVE  \/ StepRaises
           \/ \E fault \in Faults \cup TooOld :
                LET clause == CaughtBy(Converted(fault), clauses) IN
                /\ clause # "none"
                /\ Form(forms[clause], complaints[clause])
                /\ cause' = fault
<1>1. TestFaults(asked) \subseteq Faults \cup TooOld
  BY DEF TestFaults, Faults
<1> QED
  BY <1>1 DEF Fails

LEMMA EndsFit ==
    ASSUME FlowEnds
    PROVE  FaultsFit'
BY DEF FlowEnds, FaultsFit, FormsFitTheFault

LEMMA RaisesFit ==
    ASSUME FaultsFit, source # "none", StepRaises
    PROVE  FaultsFit'
<1>1. CASE step = "started"
  BY <1>1, EndsFit DEF StepRaises
<1>2. CASE step # "started"
  BY <1>2 DEF StepRaises, Form, FaultsFit, FormsFitTheFault
<1> QED
  BY <1>1, <1>2

\* The forms of the first two steps differ only in what they complain of.
LEMMA ConnectionFormFits ==
    ASSUME source # "none", NEW complaints, NEW fault \in Faults \cup TooOld,
           NEW clause, clause = CaughtBy(Converted(fault), ConnectionClauses),
           clause # "none", Form(ConnectionForms[clause], complaints[clause]), cause' = fault,
           complaints[clause] \notin {"insufficient_privileges", "invalid_basic_auth"}
    PROVE  FaultsFit'
<1>1. clause \in {"UntrustedCertificate", "CannotConnect", "AuthenticationRequired"}
  BY ConnectionCaught
<1>2. /\ clause = "UntrustedCertificate" => fault \in CertificateFaults
      /\ clause = "CannotConnect" => fault \in ConnectionFaults
      /\ clause = "AuthenticationRequired" => fault \in Refusals
  BY ConnectionFits
<1>3. /\ source' = source /\ cause' = fault
      /\ step' = CASE clause = "UntrustedCertificate" -> "certificate_issues"
                   [] clause = "CannotConnect" -> "user"
                   [] clause = "AuthenticationRequired" -> "basic_auth"
      /\ error' \notin {"insufficient_privileges", "invalid_basic_auth"}
  BY <1>1 DEF Form, ConnectionForms
<1> QED
  BY <1>1, <1>2, <1>3 DEF FaultsFit, FormsFitTheFault

LEMMA ConnectionAnswerFits ==
    ASSUME Inv, FaultsFit, UserAnswered \/ CertificateAnswered
    PROVE  FaultsFit'
<1> DEFINE noted == [UntrustedCertificate |-> "none", CannotConnect |-> "cannot_connect",
                     AuthenticationRequired |-> "none"]
           again == [UntrustedCertificate |-> "untrusted_certificate",
                     CannotConnect |-> "cannot_connect", AuthenticationRequired |-> "none"]
<1>1. /\ source # "none"
      /\ \/ FlowEnds
         \/ \E complaints \in {noted, again}, kept \in {{}, {"AuthenticationRequired"}} :
              Fails(ConnectionClauses, ConnectionForms, complaints, kept)
  BY DEF UserAnswered, CertificateAnswered, Complete, Inv, FlowFitsEntry
<1>2. CASE FlowEnds
  BY <1>2, EndsFit
<1>3. CASE StepRaises
  BY <1>1, <1>3, RaisesFit
<1>4. ASSUME NEW complaints \in {noted, again}, NEW kept,
             Fails(ConnectionClauses, ConnectionForms, complaints, kept), ~StepRaises
      PROVE  FaultsFit'
  <2>1. PICK fault \in Faults \cup TooOld :
          LET clause == CaughtBy(Converted(fault), ConnectionClauses) IN
          /\ clause # "none"
          /\ Form(ConnectionForms[clause], complaints[clause])
          /\ cause' = fault
    BY <1>4, FailsOfFault
  <2> DEFINE clause == CaughtBy(Converted(fault), ConnectionClauses)
  <2>2. clause \in {"UntrustedCertificate", "CannotConnect", "AuthenticationRequired"}
    BY <2>1, ConnectionCaught
  <2>3. complaints[clause] \notin {"insufficient_privileges", "invalid_basic_auth"}
    BY <2>2
  <2> QED
    BY <1>1, <2>1, <2>3, ConnectionFormFits
<1> QED
  BY <1>1, <1>2, <1>3, <1>4

LEMMA BasicAuthAnswerFits ==
    ASSUME Inv, FaultsFit, BasicAuthAnswered
    PROVE  FaultsFit'
<1> DEFINE forms == [InsufficientPrivileges |-> "basic_auth",
                     AuthenticationRequired |-> "basic_auth"]
           complaints == [InsufficientPrivileges |-> "insufficient_privileges",
                          AuthenticationRequired |-> "invalid_basic_auth"]
<1>1. /\ source # "none"
      /\ FlowEnds \/ Fails(BasicAuthClauses, forms, complaints, {})
  BY DEF BasicAuthAnswered, Complete, Inv, TypeOK
<1>2. CASE FlowEnds
  BY <1>2, EndsFit
<1>3. CASE StepRaises
  BY <1>1, <1>3, RaisesFit
<1>4. CASE Fails(BasicAuthClauses, forms, complaints, {}) /\ ~StepRaises
  <2>1. PICK fault \in Faults \cup TooOld :
          LET clause == CaughtBy(Converted(fault), BasicAuthClauses) IN
          /\ clause # "none"
          /\ Form(forms[clause], complaints[clause])
          /\ cause' = fault
    BY <1>4, FailsOfFault
  <2> DEFINE clause == CaughtBy(Converted(fault), BasicAuthClauses)
  <2>2. /\ fault \in Refusals
        /\ clause = IF fault.class = "AuthenticationException"
                    THEN "AuthenticationRequired" ELSE "InsufficientPrivileges"
    BY <2>1, BasicAuthFits
  <2>3. fault.class \in {"AuthenticationException", "AuthorizationException"}
    BY <2>2 DEF Refusals, Fault
  <2>4. /\ source' = source /\ step' = "basic_auth" /\ cause' = fault
        /\ error' = IF fault.class = "AuthenticationException"
                    THEN "invalid_basic_auth" ELSE "insufficient_privileges"
    BY <2>1, <2>2, <2>3 DEF Form
  <2> QED
    BY <1>1, <2>2, <2>3, <2>4 DEF FaultsFit, FormsFitTheFault
<1> QED
  BY <1>1, <1>2, <1>3, <1>4

LEMMA FaultsFitNext ==
    ASSUME Inv, FaultsFit, [Next]_vars
    PROVE  FaultsFit'
<1> USE DEF FaultsFit, FormsFitTheFault
<1>1. CASE UserStarts \/ ReauthStarts
  BY <1>1 DEF UserStarts, ReauthStarts
<1>2. CASE UserSubmits \/ CertificateSubmits \/ BasicAuthSubmits \/ ReauthBegins
  BY <1>2 DEF UserSubmits, CertificateSubmits, BasicAuthSubmits, ReauthBegins
<1>3. CASE ReauthAborts \/ FlowAbandoned
  BY <1>3, EndsFit DEF ReauthAborts, FlowAbandoned
<1>4. CASE OptionsSaved \/ Reloaded \/ AcceptedChanges \/ UNCHANGED vars
  BY <1>4 DEF OptionsSaved, Reloaded, AcceptedChanges, vars, flow
<1> QED
  BY <1>1, <1>2, <1>3, <1>4, ConnectionAnswerFits, BasicAuthAnswerFits DEF Next

-----------------------------------------------------------------------------
\* The entry that is there.

\* A test that failed leaves the entry alone.
LEMMA FailsKeepsEntry ==
    ASSUME NEW clauses, NEW forms, NEW complaints, NEW kept,
           Fails(clauses, forms, complaints, kept)
    PROVE  UNCHANGED <<accepted, entry, reload>>
<1>1. StepRaises => UNCHANGED <<accepted, entry, reload>>
  BY DEF StepRaises, Form
<1>2. \A shown, complaint : Form(shown, complaint) => UNCHANGED <<accepted, entry, reload>>
  BY DEF Form
<1> QED
  BY <1>1, <1>2 DEF Fails

\* The data of an entry change at the end of a re-authentication only.
LEMMA OnlyReauthChangesData ==
    ASSUME Inv, Next, entry # None, entry' # None, entry'.data # entry.data
    PROVE  /\ source = "reauth" /\ asked # None
           /\ Complete(Updated(prospective, input))
           /\ step # "user"
<1> USE DEF Inv
<1>1. ~(UserAnswered \/ CertificateAnswered)
  BY DEF UserAnswered, CertificateAnswered, FlowFitsEntry
<1>2. CASE OptionsSaved
  <2>1. PICK o \in Options : entry' = [entry EXCEPT !.options = o]
    BY <1>2 DEF OptionsSaved
  <2> QED
    BY <2>1 DEF TypeOK
<1>3. CASE BasicAuthAnswered
  <2>1. /\ step \in {"basic_auth", "started"} /\ asked # None
        /\ Complete(Updated(prospective, input))
    BY <1>3, FailsKeepsEntry DEF BasicAuthAnswered
  <2>2. source = "reauth"
    BY <2>1 DEF TypeOK, FlowFitsEntry
  <2> QED
    BY <2>1, <2>2
<1>4. CASE UNCHANGED entry
  BY <1>4
<1>5. \/ UserStarts \/ UserSubmits \/ CertificateSubmits \/ BasicAuthSubmits
      \/ ReauthStarts \/ ReauthBegins \/ ReauthAborts \/ FlowAbandoned
      \/ Reloaded \/ AcceptedChanges
      => UNCHANGED entry
  BY DEF UserStarts, UserSubmits, CertificateSubmits, BasicAuthSubmits, ReauthStarts,
         ReauthBegins, ReauthAborts, FlowAbandoned, Reloaded, AcceptedChanges
<1> QED
  BY <1>1, <1>2, <1>3, <1>4, <1>5 DEF Next

-----------------------------------------------------------------------------
\* The refinement.

\* What ConfigEntryLifecycle sees of the entry and of its re-authentication
HasUsername == entry.data.credentials # None
IsAccepted == entry.data.credentials \in accepted
Flow == CASE source # "reauth" -> "none"
          [] source = "reauth" /\ step = "started" -> "started"
          [] OTHER -> "form"

LEMMA SeenUnchanged ==
    ASSUME UNCHANGED <<reload, HasUsername, IsAccepted, Flow, entry.options>>
    PROVE  UNCHANGED L!vars
BY DEF HasUsername, IsAccepted, Flow, L!vars, L!entryVars, L!userVars, L!objectVars,
       L!clientVars, L!taskVars, L!history

LEMMA StartReauthStep ==
    ASSUME Inv, ReauthStarts
    PROVE  LifecycleStep
<1>1. Flow = "none" /\ Flow' = "started"
  BY DEF ReauthStarts, Flow
<1>2. L!StartReauth
  BY <1>1 DEF L!StartReauth, Flow
<1>3. UNCHANGED <<reload, entry.data.credentials \in accepted,
                  entry.data.credentials # None, entry.options>>
  BY DEF ReauthStarts
<1> QED
  BY <1>2, <1>3 DEF LifecycleStep

\* One of the four ends of L!Reauth, by what is seen of it
LEMMA ReauthStep ==
    ASSUME Flow # "none", HasUsername' = HasUsername, entry'.options = entry.options,
           \/ /\ Flow = "started" /\ ~HasUsername /\ Flow' = "none"
              /\ UNCHANGED <<IsAccepted, reload>>
           \/ /\ Flow = "started" /\ HasUsername /\ ~IsAccepted /\ Flow' = "form"
              /\ UNCHANGED <<IsAccepted, reload>>
           \/ /\ Flow = "started" /\ HasUsername /\ Flow' = "none"
              /\ UNCHANGED <<IsAccepted, reload>>
           \/ /\ Flow = "form" \/ (Flow = "started" /\ HasUsername /\ IsAccepted)
              /\ Flow' = "none"
              /\ IsAccepted' = TRUE /\ reload' = TRUE
    PROVE  LifecycleStep
<1> USE DEF LifecycleStep, L!Reauth, L!entryVars, L!objectVars, L!clientVars, L!taskVars,
            L!history, HasUsername, IsAccepted, Flow
<1>1. CASE /\ Flow = "started" /\ ~HasUsername /\ Flow' = "none"
           /\ UNCHANGED <<IsAccepted, reload>>
  BY <1>1 DEF L!ReauthAborts
<1>2. CASE /\ Flow = "started" /\ HasUsername /\ ~IsAccepted /\ Flow' = "form"
           /\ UNCHANGED <<IsAccepted, reload>>
  BY <1>2 DEF L!ReauthAsks
<1>3. CASE /\ Flow = "started" /\ HasUsername /\ Flow' = "none"
           /\ UNCHANGED <<IsAccepted, reload>>
  BY <1>3 DEF L!ReauthBreaks, L!Counted
<1>4. CASE /\ Flow = "form" \/ (Flow = "started" /\ HasUsername /\ IsAccepted)
           /\ Flow' = "none"
           /\ IsAccepted' = TRUE /\ reload' = TRUE
  BY <1>4 DEF L!ReauthSucceeds
<1> QED
  BY <1>1, <1>2, <1>3, <1>4

\* Only credentials that OpenSearch does not accept are refused.
LEMMA RefusedTests ==
    ASSUME NEW fault \in TestFaults(asked), fault \in Refusals
    PROVE  asked.credentials \notin accepted
<1>1. fault.class \in {"AuthenticationException", "AuthorizationException"}
  BY DEF Refusals, Fault
<1>2. fault \notin ConnectionFaults \cup UnexpectedFaults \cup CertificateFaults \cup TooOld
  BY <1>1 DEF ConnectionFaults, UnexpectedFaults, CertificateFaults, TooOld, Fault
<1> QED
  BY <1>2 DEF TestFaults

LEMMA BasicAuthAnsweredStep ==
    ASSUME Inv, BasicAuthAnswered, entry # None
    PROVE  LifecycleStep \/ UNCHANGED L!vars
<1> DEFINE forms == [InsufficientPrivileges |-> "basic_auth",
                     AuthenticationRequired |-> "basic_auth"]
           complaints == [InsufficientPrivileges |-> "insufficient_privileges",
                          AuthenticationRequired |-> "invalid_basic_auth"]
<1>1. /\ step \in {"basic_auth", "started"} /\ asked # None
      /\ \/ TestMaySucceed(asked) /\ Complete(Updated(prospective, input))
         \/ Fails(BasicAuthClauses, forms, complaints, {})
  BY DEF BasicAuthAnswered
<1>2. /\ source = "reauth" /\ entry \in [data : Data, options : Options]
      /\ HasUsername /\ Flow = IF step = "started" THEN "started" ELSE "form"
      /\ prospective = entry.data
      /\ Kept = Updated(prospective, input) /\ asked = TestSettings(Kept)
      /\ step = "started" => Kept = prospective
  BY <1>1 DEF Inv, TypeOK, FlowFitsEntry, ReauthIsOfEntry, TestsWhatIsKept, Kept,
              HasUsername, Flow
<1>3. CASE TestMaySucceed(asked) /\ Complete(Updated(prospective, input))
  <2>1. PICK credentials \in Credentials :
          Kept = [entry.data EXCEPT !.credentials = credentials]
    BY <1>1, <1>2 DEF Inv, ReauthIsOfEntry
  <2>2. /\ entry' = [data |-> Kept, options |-> entry.options] /\ reload' = TRUE
        /\ accepted' = accepted /\ source' = "none"
    BY <1>2, <1>3 DEF Complete, FlowEnds
  <2>3. Kept.credentials = credentials /\ asked.credentials = credentials
    BY <1>2, <2>1 DEF Data, TestSettings
  <2>4. credentials \in accepted /\ credentials # None
    BY <1>3, <2>3, ConstantsAssumption DEF TestMaySucceed
  <2>5. /\ Flow' = "none" /\ IsAccepted' = TRUE /\ HasUsername' = HasUsername
        /\ entry'.options = entry.options
    BY <1>2, <2>2, <2>3, <2>4 DEF Flow, IsAccepted, HasUsername
  <2>6. step = "started" => IsAccepted
    BY <1>2, <2>3, <2>4 DEF IsAccepted
  <2> QED
    BY <1>1, <1>2, <2>2, <2>5, <2>6, ReauthStep
<1>4. CASE Fails(BasicAuthClauses, forms, complaints, {})
  <2>1. UNCHANGED <<reload, HasUsername, IsAccepted, entry.options>>
    BY <1>4, FailsKeepsEntry DEF HasUsername, IsAccepted
  <2>2. CASE StepRaises
    <3>1. CASE step = "started"
      <4>1. Flow' = "none"
        BY <2>2, <3>1 DEF StepRaises, FlowEnds, Flow
      <4> QED
        BY <1>2, <2>1, <3>1, <4>1, ReauthStep
    <3>2. CASE step # "started"
      <4>1. Flow' = Flow
        BY <2>2, <3>2 DEF StepRaises, Form, Flow
      <4> QED
        BY <2>1, <4>1, SeenUnchanged
    <3> QED
      BY <3>1, <3>2
  <2>3. CASE ~StepRaises
    <3>1. PICK fault \in TestFaults(asked) :
            LET clause == CaughtBy(Converted(fault), BasicAuthClauses) IN
            clause # "none" /\ Form(forms[clause], complaints[clause])
      BY <1>4, <2>3 DEF Fails
    <3>2. step' = "basic_auth" /\ source' = source
      BY <3>1, BasicAuthCaught DEF Form
    <3>3. Flow' = "form"
      BY <1>2, <3>2 DEF Flow
    <3>4. CASE step = "started"
      <4>1. fault \in Refusals
        <5>1. fault \in Faults \cup TooOld
          BY DEF TestFaults, Faults
        <5> QED
          BY <3>1, <5>1, BasicAuthFits
      <4>2. asked.credentials \notin accepted
        BY <4>1, RefusedTests
      <4>3. ~IsAccepted
        BY <1>2, <3>4, <4>2 DEF TestSettings, IsAccepted
      <4> QED
        BY <1>2, <2>1, <3>3, <3>4, <4>3, ReauthStep
    <3>5. CASE step # "started"
      BY <1>2, <2>1, <3>3, <3>5, SeenUnchanged
    <3> QED
      BY <3>4, <3>5
  <2> QED
    BY <2>2, <2>3
<1> QED
  BY <1>1, <1>3, <1>4

LEMMA OptionsSavedStep ==
    ASSUME Inv, OptionsSaved
    PROVE  LifecycleStep
<1>1. PICK o \in Options \ {entry.options} : entry' = [entry EXCEPT !.options = o]
  BY DEF OptionsSaved
<1>2. entry \in [data : Data, options : Options]
  BY DEF Inv, TypeOK, OptionsSaved
<1>3. entry'.data = entry.data /\ entry'.options = o
  BY <1>1, <1>2
<1>4. reload' = TRUE /\ UNCHANGED <<accepted, source, step>>
  BY DEF OptionsSaved, flow
<1> QED
  BY <1>1, <1>3, <1>4 DEF LifecycleStep, L!OptionsSaved, L!clientVars, L!history

LEMMA RefinementStep ==
    ASSUME Inv, Next, entry # None
    PROVE  LifecycleStep \/ UNCHANGED L!vars
<1> USE DEF Inv
<1>1. ~(UserStarts \/ UserSubmits \/ UserAnswered \/ CertificateSubmits
          \/ CertificateAnswered \/ FlowAbandoned)
  BY DEF UserStarts, UserSubmits, UserAnswered, CertificateSubmits, CertificateAnswered,
         FlowAbandoned, FlowFitsEntry
<1>2. CASE BasicAuthSubmits \/ ReauthBegins
  <2>1. UNCHANGED <<accepted, source, step, entry, reload>>
    BY <1>2 DEF BasicAuthSubmits, ReauthBegins
  <2> QED
    BY <2>1, SeenUnchanged DEF HasUsername, IsAccepted, Flow
<1>3. CASE ReauthAborts
  <2>1. /\ Flow = "started" /\ ~HasUsername /\ Flow' = "none"
        /\ UNCHANGED <<accepted, entry, reload>>
    BY <1>3 DEF ReauthAborts, FlowEnds, Flow, HasUsername, FlowFitsEntry
  <2>2. UNCHANGED <<IsAccepted, HasUsername, reload, entry.options>>
    BY <2>1 DEF IsAccepted, HasUsername
  <2> QED
    BY <2>1, <2>2, ReauthStep
<1>4. CASE Reloaded
  BY <1>4 DEF Reloaded, LifecycleStep, L!ReloadStarts, L!BeginReload, L!GoOn, L!userVars,
         L!clientVars, L!history, flow
<1>5. CASE AcceptedChanges
  <2>1. /\ UNCHANGED <<source, step, entry, reload>>
        /\ IsAccepted' => IsAccepted
    BY <1>5 DEF AcceptedChanges, flow, IsAccepted
  <2>2. CASE IsAccepted' = IsAccepted
    BY <2>1, <2>2, SeenUnchanged DEF HasUsername, Flow
  <2>3. CASE IsAccepted' # IsAccepted
    BY <2>1, <2>3
    DEF IsAccepted, LifecycleStep, L!CredentialsRevoked, L!entryVars, L!taskVars, L!history
  <2> QED
    BY <2>2, <2>3
<1> QED
  BY <1>1, <1>2, <1>3, <1>4, <1>5, BasicAuthAnsweredStep, OptionsSavedStep,
     StartReauthStep DEF Next

-----------------------------------------------------------------------------
\* The theorems.

\* Every variable of the flow stays in its type.
THEOREM TypeCorrect == Spec => []TypeOK
<1>1. Inv => TypeOK
  BY DEF Inv
<1> QED
  BY <1>1, SpecInv, PTL

\* However the user gets through the forms, the stored settings are those of a
\* test that succeeded.
THEOREM EntryGetsTested == Spec => []EntryIsTested
<1>1. Inv => EntryIsTested
  BY DEF Inv
<1> QED
  BY <1>1, SpecInv, PTL

\* The client that OpenSearchIntegration makes of the stored data has no
\* requirement of the server's certificate that the test did not have.
THEOREM EntryIsNoStricter == Spec => []EntryAcceptsWhatWasTested
<1>1. ASSUME Inv, entry # None
      PROVE  LET client == ToClient(GatewayParameters(entry.data)) IN
             /\ [client EXCEPT !.tls = ToClient(tested).tls] = ToClient(tested)
             /\ client.tls \in {ToClient(tested).tls, [check_hostname |-> FALSE, ca |-> None]}
  <2> DEFINE client == ToClient(GatewayParameters(entry.data))
             test == ToClient(TestSettings(entry.data))
  <2>1. tested = TestSettings(entry.data) /\ Paired(entry.data)
    BY <1>1 DEF Inv, EntryIsTested, VerificationIsWhole
  <2>2. client = [url |-> entry.data.url, http_auth |-> entry.data.credentials,
                  tls |-> client.tls]
    BY DEF GatewayParameters, ToClient
  <2>3. test = [url |-> entry.data.url, http_auth |-> entry.data.credentials,
                tls |-> test.tls]
    BY DEF TestSettings, ToClient
  <2>4. client.tls \in {test.tls, [check_hostname |-> FALSE, ca |-> None]}
    BY <2>1 DEF TestSettings, GatewayParameters, ToClient, Get, Paired
  <2> HIDE DEF client, test
  <2>5. [client EXCEPT !.tls = test.tls] = test
    BY <2>2, <2>3
  <2> QED
    BY <2>1, <2>4, <2>5 DEF client, test
<1>2. Inv => EntryAcceptsWhatWasTested
  BY <1>1 DEF EntryAcceptsWhatWasTested
<1> QED
  BY <1>2, SpecInv, PTL

\* Whatever opensearch-py raises, the form that is shown and what it complains
\* of are about that fault and no other.
THEOREM FormsFit == Spec => []FormsFitTheFault
<1>1. Init => FaultsFit
  BY DEF Init, FaultsFit, FormsFitTheFault
<1>2. Inv /\ FaultsFit /\ [Next]_vars => FaultsFit'
  BY FaultsFitNext
<1>3. FaultsFit => FormsFitTheFault
  BY DEF FaultsFit
<1> QED
  BY <1>1, <1>2, <1>3, SpecInv, PTL DEF Spec

\* A re-authentication, which may wait for its user while the options are
\* edited, changes nothing of the entry but its credentials.
THEOREM ReauthIsConfined == Spec => ReauthKeepsTheRest
<1>1. ASSUME Inv, Next, entry # None, entry' # None, entry'.data # entry.data
      PROVE  /\ entry' = [entry EXCEPT !.data.credentials = entry'.data.credentials]
             /\ reload'
  <2>1. /\ source = "reauth" /\ asked # None
        /\ Complete(Updated(prospective, input))
        /\ step # "user"
    BY <1>1, OnlyReauthChangesData
  <2>2. PICK credentials \in Credentials :
          Updated(prospective, input) = [entry.data EXCEPT !.credentials = credentials]
    BY <1>1, <2>1 DEF Inv, ReauthIsOfEntry, Kept
  <2>3. entry \in [data : Data, options : Options]
    BY <1>1 DEF Inv, TypeOK
  <2>4. /\ entry' = [data |-> [entry.data EXCEPT !.credentials = credentials],
                     options |-> entry.options]
        /\ reload' = TRUE
    BY <2>1, <2>2 DEF Complete
  <2>5. entry'.data.credentials = credentials
    BY <2>3, <2>4 DEF Data
  <2> QED
    BY <2>3, <2>4, <2>5
<1>2. Inv /\ [Next]_vars =>
        [entry # None /\ entry' # None /\ entry'.data # entry.data =>
           /\ entry' = [entry EXCEPT !.data.credentials = entry'.data.credentials]
           /\ reload']_vars
  BY <1>1
<1> QED
  BY <1>2, SpecInv, PTL DEF Spec, ReauthKeepsTheRest

\* Every step of the flows on an entry that is there is a step of the lives of
\* the entry, or leaves them as they are.
THEOREM FlowsImplementTheLifecycle == Spec => FlowsRefineTheLifecycle
<1>1. Inv /\ [Next]_vars => [entry # None => LifecycleStep \/ UNCHANGED L!vars]_vars
  BY RefinementStep
<1> QED
  BY <1>1, SpecInv, PTL DEF Spec, FlowsRefineTheLifecycle
=============================================================================
