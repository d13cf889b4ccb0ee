--------------------------- MODULE ErrorConverter ---------------------------
(***************************************************************************)
(* What becomes of a fault of opensearch-py: the gateway's converter       *)
(* (os_gateway.py) turns it into an exception of the integration           *)
(* (errors.py), and the callers catch that by class, the first matching    *)
(* except clause winning.  The hierarchy is a function from a class to its *)
(* superclass.  The module is pure.                                        *)
(***************************************************************************)
EXTENDS Naturals, Sequences

\* opensearch-py's classes, as far as the converter names them or leaves them
\* to their superclass (its SSLError under a name of its own), and ours.
Superclass ==
    [AuthenticationException |-> "TransportError",
     AuthorizationException |-> "TransportError",
     NotFoundError |-> "TransportError",
     RequestError |-> "TransportError",
     ConflictError |-> "TransportError",
     ConnectionError |-> "TransportError",
     ConnectionTimeout |-> "ConnectionError",
     LibrarySSLError |-> "ConnectionError",
     TransportError |-> "Exception",
     InsufficientPrivileges |-> "AuthenticationRequired",
     AuthenticationRequired |-> "OSIntegrationConnectionException",
     UnsupportedVersion |-> "OSIntegrationConnectionException",
     UntrustedCertificate |-> "SSLError",
     SSLError |-> "CannotConnect",
     ServerError |-> "CannotConnect",
     ClientError |-> "CannotConnect",
     CannotConnect |-> "OSIntegrationConnectionException",
     OSIntegrationConnectionException |-> "OSIntegrationException",
     OSIntegrationException |-> "Exception"]

Ancestors[class \in DOMAIN Superclass \cup {"Exception"}] ==
    {class} \cup IF class = "Exception" THEN {} ELSE Ancestors[Superclass[class]]

IsA(exception, class) == class \in Ancestors[exception]

\* The first of a sequence of except clauses that catches the exception.
CaughtBy(exception, clauses) ==
    LET matching == {i \in DOMAIN clauses : IsA(exception, clauses[i])} IN
    IF matching = {} THEN "none"
    ELSE clauses[CHOOSE i \in matching : \A j \in matching : i <= j]

-----------------------------------------------------------------------------
\* Faults.

Fault(classes, certificates, statuses) ==
    [class : classes, certificate : certificates, status : statuses]

\* OpenSearch does not let the user in, or not do this.
Refusals ==
    Fault({"AuthenticationException"}, {FALSE}, {401})
      \cup Fault({"AuthorizationException"}, {FALSE}, {403})

\* The TLS handshake fails for the server's certificate; opensearch-py reports
\* it in either of two ways.
CertificateFaults ==
    Fault({"LibrarySSLError"}, {FALSE}, {0})
      \cup Fault({"ConnectionError"}, {TRUE}, {0})

\* Nobody answers, or with an HTTP error.  A status of 0 is none at all.
ConnectionFaults ==
    Fault({"ConnectionTimeout", "ConnectionError"}, {FALSE}, {0})
      \cup Fault({"TransportError"}, {FALSE}, {0, 302, 503})
      \cup Fault({"NotFoundError"}, {FALSE}, {404})
      \cup Fault({"RequestError"}, {FALSE}, {400})
      \cup Fault({"ConflictError"}, {FALSE}, {409})

\* Anything else, a CA file that is not there among it.
UnexpectedFaults == Fault({"Exception"}, {FALSE}, {0})

Faults == Refusals \cup CertificateFaults \cup ConnectionFaults \cup UnexpectedFaults

\* A plausible slip: the general clause stands before those it includes.
ConverterClausesGeneralFirst ==
    <<"AuthenticationException", "AuthorizationException", "ConnectionTimeout",
      "ConnectionError", "LibrarySSLError", "TransportError">>

ConverterClauses ==
    <<"AuthenticationException", "AuthorizationException", "ConnectionTimeout",
      "LibrarySSLError", "ConnectionError", "TransportError">>

\* _error_converter; a fault that no clause names is raised as it is.
Converted(fault) ==
    LET clause == CaughtBy(fault.class, ConverterClauses) IN
    CASE clause = "AuthenticationException" -> "AuthenticationRequired"
      [] clause = "AuthorizationException" -> "InsufficientPrivileges"
      [] clause = "ConnectionTimeout" -> "ServerError"
      [] clause = "LibrarySSLError" -> "UntrustedCertificate"
      [] clause = "ConnectionError" ->
            IF fault.certificate THEN "UntrustedCertificate" ELSE "CannotConnect"
      [] clause = "TransportError" ->
            IF fault.status >= 400 THEN "ServerError" ELSE "CannotConnect"
      [] OTHER -> fault.class

-----------------------------------------------------------------------------
\* Callers that last as long as the entry.

\* A plausible slip: the base class is caught before the refusals.
SetupClausesBaseFirst ==
    <<"UnsupportedVersion", "CannotConnect", "OSIntegrationException",
      "AuthenticationRequired", "Exception">>

SetupClauses ==
    <<"UnsupportedVersion", "CannotConnect", "AuthenticationRequired",
      "OSIntegrationException", "Exception">>

\* async_setup_entry: ConfigEntryNotReady, ConfigEntryAuthFailed or
\* IntegrationError
SetupRaises(exception) ==
    LET clause == CaughtBy(exception, SetupClauses) IN
    CASE clause = "AuthenticationRequired" -> "auth_failed"
      [] clause = "Exception" -> "error"
      [] OTHER -> "not_ready"

\* publish asks for a reload when credentials are refused, and logs the rest.
PublishClauses ==
    <<"AuthenticationRequired", "OSIntegrationConnectionException", "Exception">>
=============================================================================
