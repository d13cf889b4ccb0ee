----------------------------- MODULE ConfigFlow -----------------------------
(***************************************************************************)
(* OpenSearchFlowHandler of config_flow.py: the flow that creates the      *)
(* config entry and the flow that re-authenticates it.  A step tests the   *)
(* connection with a gateway of its own, and the outcome decides whether   *)
(* the entry is stored, a form is shown or the step raises.  A step is two *)
(* actions, before and after the await of that test.                       *)
(*                                                                         *)
(* A key that a dictionary lacks has the value None here.                  *)
(***************************************************************************)
EXTENDS ErrorConverter

CONSTANTS
    None,           \* a key that is absent, Python's None
    Urls, PlainUrls,\* addresses, and those that do not begin with https
    Credentials,    \* pairs of a user name and a password
    CaFiles,        \* paths of CA files
    Options,        \* contents of the options form
    DefaultOptions  \* OpenSearchOptionsFlowHandler.default_options

ASSUME ConstantsAssumption ==
    /\ None \notin Urls \cup Credentials \cup CaFiles \cup BOOLEAN
    /\ DefaultOptions \in Options

VARIABLES
    accepted,       \* the credentials OpenSearch accepts, None for no credentials
    source,         \* who started the flow that is under way, if any
    step,           \* the form that is shown, or "started" before the first
    error,          \* what the form complains of
    prospective,    \* _prospective_config
    input,          \* user_input of the step that is awaiting its test
    asked,          \* the settings being tested, or None
    entry,          \* the config entry, or None
    reload,         \* HA has been asked to reload the entry
    \* history
    tested,         \* the settings of the last test that succeeded
    cause           \* why the last test failed, in this flow

flow == <<source, step, error, prospective, input, asked>>
vars == <<accepted, flow, entry, reload, tested, cause>>

Data == [url : Urls \cup {None}, credentials : Credentials \cup {None},
         verify_ssl : BOOLEAN \cup {None}, ssl_verify_hostname : BOOLEAN \cup {None},
         ssl_ca_path : CaFiles \cup {None}]

ASSUME EntryAssumption == None \notin [data : Data, options : Options]

NoData == [url |-> None, credentials |-> None, verify_ssl |-> None,
           ssl_verify_hostname |-> None, ssl_ca_path |-> None]

\* dict.update: the keys of the second that are there
Updated(data, new) ==
    [key \in DOMAIN data |-> IF new[key] = None THEN data[key] ELSE new[key]]

\* dict.get(key, default)
Get(value, default) == IF value = None THEN default ELSE value

-----------------------------------------------------------------------------
\* Gateways.

\* A plausible slip: a key that is not there has no default.
TestSettingsWithoutDefaults(data) ==
    [url |-> data.url, credentials |-> data.credentials, verify_certs |-> data.verify_ssl,
     verify_hostname |-> data.ssl_verify_hostname, ca_certs |-> data.ssl_ca_path]

\* GatewaySettings as async_step_basic_auth fills them in.  The other steps do
\* the same, with what they know by then.
TestSettings(data) ==
    [url |-> data.url, credentials |-> data.credentials,
     verify_certs |-> Get(data.verify_ssl, TRUE),
     verify_hostname |-> Get(data.ssl_verify_hostname, TRUE),
     ca_certs |-> data.ssl_ca_path]

\* A plausible slip: the CA file is forgotten.
GatewayParametersWithoutCa(data) ==
    [url |-> data.url, credentials |-> data.credentials,
     verify_certs |-> Get(data.verify_ssl, FALSE),
     verify_hostname |-> Get(data.ssl_verify_hostname, FALSE),
     ca_certs |-> None]

\* OpenSearchIntegration.build_gateway_parameters
GatewayParameters(data) ==
    [url |-> data.url, credentials |-> data.credentials,
     verify_certs |-> Get(data.verify_ssl, FALSE),
     verify_hostname |-> Get(data.ssl_verify_hostname, FALSE),
     ca_certs |-> data.ssl_ca_path]

\* GatewaySettings.to_client: without verification neither host name nor CA
\* matter, and without https there is no TLS.
ToClient(settings) ==
    [url |-> settings.url, http_auth |-> settings.credentials,
     tls |-> IF settings.url \in PlainUrls THEN None
             ELSE IF settings.verify_certs
             THEN [check_hostname |-> settings.verify_hostname, ca |-> settings.ca_certs]
             ELSE [check_hostname |-> FALSE, ca |-> None]]

VerifiesCertificates(settings) ==
    settings.url \notin PlainUrls /\ settings.verify_certs

\* OPENSEARCH_MINIMUM_VERSION is <<2, 0>>.
MeetsMinimumVersion(version) ==
    \/ version[1] > 2
    \/ version[1] = 2 /\ version[2] >= 0

\* Releases of OpenSearch around the minimum.
Versions == {<<1, 9>>, <<2, 0>>, <<10, 1>>}

\* async_init_then_stop fails for a fault or for the server's version.
TooOld == Fault({"UnsupportedVersion"}, {FALSE}, {0})

TestFaults(settings) ==
    ConnectionFaults \cup UnexpectedFaults
      \cup (IF VerifiesCertificates(settings) THEN CertificateFaults ELSE {})
      \cup (IF settings.credentials \in accepted
            THEN IF \E v \in Versions : ~MeetsMinimumVersion(v) THEN TooOld ELSE {}
            ELSE Refusals)

TestMaySucceed(settings) ==
    settings.credentials \in accepted /\ \E v \in Versions : MeetsMinimumVersion(v)

-----------------------------------------------------------------------------
\* Steps.

Init ==
    /\ accepted \in SUBSET (Credentials \cup {None})
    /\ source = "none" /\ step = "none" /\ error = "none"
    /\ prospective = NoData /\ input = NoData
    /\ asked = None
    /\ entry = None
    /\ reload = FALSE
    /\ tested = None
    /\ cause = None

\* async_step_user without input.  Once the entry is there we follow that one.
UserStarts ==
    /\ source = "none"
    /\ entry = None
    /\ source' = "user"
    /\ step' = "user"
    /\ UNCHANGED <<accepted, error, prospective, input, asked, entry, reload, tested, cause>>

\* async_step_user up to its test, of the address alone.  The address is kept
\* whatever the outcome.
UserSubmits ==
    /\ step = "user" /\ asked = None
    /\ \E url \in Urls :
        /\ input' = [NoData EXCEPT !.url = url]
        /\ prospective' = Updated(prospective, input')
        /\ asked' = TestSettings(input')
    /\ UNCHANGED <<accepted, source, step, error, entry, reload, tested, cause>>

\* async_step_certificate_issues up to its test
CertificateSubmits ==
    /\ step = "certificate_issues" /\ asked = None
    /\ \E verify, hostname \in BOOLEAN, ca \in CaFiles \cup {None} :
        /\ input' = [url |-> None, credentials |-> None, verify_ssl |-> verify,
                     ssl_verify_hostname |-> hostname, ssl_ca_path |-> ca]
        /\ asked' = TestSettings([input' EXCEPT !.url = prospective.url])
    /\ UNCHANGED <<accepted, source, step, error, prospective, entry, reload, tested, cause>>

\* async_step_basic_auth up to its test
BasicAuthSubmits ==
    /\ step = "basic_auth" /\ asked = None
    /\ \E credentials \in Credentials :
        /\ input' = [NoData EXCEPT !.credentials = credentials]
        /\ asked' = TestSettings(Updated(prospective, input'))
    /\ UNCHANGED <<accepted, source, step, error, prospective, entry, reload, tested, cause>>

FlowEnds ==
    /\ source' = "none" /\ step' = "none" /\ error' = "none"
    /\ prospective' = NoData /\ input' = NoData
    /\ asked' = None
    /\ cause' = None

\* async_step_reauth.  HA hands it the entry's data, so the credentials of the
\* entry are tested before any form is shown.
ReauthBegins ==
    /\ step = "started" /\ asked = None
    /\ entry.data.credentials # None
    /\ prospective' = entry.data
    /\ input' = entry.data
    /\ asked' = TestSettings(entry.data)
    /\ UNCHANGED <<accepted, source, step, error, entry, reload, tested, cause>>

ReauthAborts ==
    /\ step = "started" /\ asked = None
    /\ entry.data.credentials = None
    /\ FlowEnds
    /\ UNCHANGED <<accepted, entry, reload, tested>>

-----------------------------------------------------------------------------
\* Answers.

\* A plausible slip: the entry gets the options of a new one.
CompleteWithDefaults(data) ==
    /\ entry' = [data |-> data, options |-> DefaultOptions]
    /\ reload' = (source = "reauth")
    /\ tested' = asked
    /\ FlowEnds
    /\ UNCHANGED accepted

\* async_step_complete: the entry is created, or updated and then reloaded.
Complete(data) ==
    /\ entry' = [data |-> data,
                 options |-> IF source = "reauth" THEN entry.options ELSE DefaultOptions]
    /\ reload' = (source = "reauth")
    /\ tested' = asked
    /\ FlowEnds
    /\ UNCHANGED accepted

Form(shown, complaint) ==
    /\ step' = shown
    /\ error' = complaint
    /\ input' = NoData
    /\ asked' = None
    /\ UNCHANGED <<accepted, source, entry, reload, tested>>

\* An exception that the step does not catch: HA keeps the form, and drops the
\* flow when it has not got to a form.
StepRaises ==
    IF step = "started"
    THEN FlowEnds /\ UNCHANGED <<accepted, entry, reload, tested>>
    ELSE Form(step, error) /\ UNCHANGED <<prospective, cause>>

\* The test has failed.  The except clause decides which form is shown, with
\* which complaint, and whether the input is taken over for it.
Fails(clauses, forms, complaints, kept) ==
    \E fault \in TestFaults(asked) :
        LET clause == CaughtBy(Converted(fault), clauses) IN
        IF clause = "none" THEN StepRaises
        ELSE /\ Form(forms[clause], complaints[clause])
             /\ cause' = fault
             /\ prospective' = IF clause \in kept THEN Updated(prospective, input)
                               ELSE prospective

ConnectionClauses == <<"UntrustedCertificate", "CannotConnect", "AuthenticationRequired">>

ConnectionForms ==
    [UntrustedCertificate |-> "certificate_issues", CannotConnect |-> "user",
     AuthenticationRequired |-> "basic_auth"]

\* The rest of async_step_user
UserAnswered ==
    /\ step = "user" /\ asked # None
    /\ \/ TestMaySucceed(asked) /\ Complete(prospective)
       \/ Fails(ConnectionClauses, ConnectionForms,
                [UntrustedCertificate |-> "none", CannotConnect |-> "cannot_connect",
                 AuthenticationRequired |-> "none"], {})

\* A plausible slip: the settings are not kept when the test succeeds.
CertificateAnsweredNotKept ==
    /\ step = "certificate_issues" /\ asked # None
    /\ \/ TestMaySucceed(asked) /\ Complete(prospective)
       \/ Fails(ConnectionClauses, ConnectionForms,
                [UntrustedCertificate |-> "untrusted_certificate",
                 CannotConnect |-> "cannot_connect", AuthenticationRequired |-> "none"],
                {"AuthenticationRequired"})

\* The rest of async_step_certificate_issues
CertificateAnswered ==
    /\ step = "certificate_issues" /\ asked # None
    /\ \/ TestMaySucceed(asked) /\ Complete(Updated(prospective, input))
       \/ Fails(ConnectionClauses, ConnectionForms,
                [UntrustedCertificate |-> "untrusted_certificate",
                 CannotConnect |-> "cannot_connect", AuthenticationRequired |-> "none"],
                {"AuthenticationRequired"})

BasicAuthClauses == <<"InsufficientPrivileges", "AuthenticationRequired">>

\* The rest of async_step_basic_auth: a lost connection is not caught.
BasicAuthAnswered ==
    /\ step \in {"basic_auth", "started"} /\ asked # None
    /\ \/ TestMaySucceed(asked) /\ Complete(Updated(prospective, input))
       \/ Fails(BasicAuthClauses,
                [InsufficientPrivileges |-> "basic_auth",
                 AuthenticationRequired |-> "basic_auth"],
                [InsufficientPrivileges |-> "insufficient_privileges",
                 AuthenticationRequired |-> "invalid_basic_auth"], {})

-----------------------------------------------------------------------------
\* The surroundings.

\* The user closes the dialog.  HA keeps a re-authentication for later.
FlowAbandoned ==
    /\ source = "user" /\ asked = None
    /\ FlowEnds
    /\ UNCHANGED <<accepted, entry, reload, tested>>

\* async_start_reauth, on a set-up that was refused
ReauthStarts ==
    /\ source = "none"
    /\ entry # None
    /\ source' = "reauth"
    /\ step' = "started"
    /\ UNCHANGED <<accepted, error, prospective, input, asked, entry, reload, tested, cause>>

\* A plausible slip: the options are stored and nothing is reloaded.
OptionsOnlyStored ==
    /\ entry # None
    /\ \E options \in Options \ {entry.options} :
        entry' = [entry EXCEPT !.options = options]
    /\ UNCHANGED <<accepted, flow, reload, tested, cause>>

\* async_step_options.  It schedules the reload and stores the options without
\* an await; what the reload reads is a matter of ConfigEntryLifecycle.
OptionsSaved ==
    /\ entry # None
    /\ \E options \in Options \ {entry.options} :
        entry' = [entry EXCEPT !.options = options]
    /\ reload' = TRUE
    /\ UNCHANGED <<accepted, flow, tested, cause>>

Reloaded ==
    /\ reload
    /\ reload' = FALSE
    /\ UNCHANGED <<accepted, flow, entry, tested, cause>>

\* Passwords change in OpenSearch.  The entry's own do not come back.
AcceptedChanges ==
    /\ \E credentials \in Credentials \cup {None} :
        \/ accepted' = accepted \ {credentials}
        \/ /\ entry # None => credentials # entry.data.credentials
           /\ accepted' = accepted \cup {credentials}
    /\ UNCHANGED <<flow, entry, reload, tested, cause>>

Next ==
    \/ UserStarts \/ UserSubmits \/ UserAnswered
    \/ CertificateSubmits \/ CertificateAnswered
    \/ BasicAuthSubmits \/ BasicAuthAnswered
    \/ ReauthStarts \/ ReauthBegins \/ ReauthAborts
    \/ FlowAbandoned \/ OptionsSaved \/ Reloaded \/ AcceptedChanges

Spec == Init /\ [][Next]_vars

-----------------------------------------------------------------------------
\* Properties.

Settings == [url : Urls, credentials : Credentials \cup {None}, verify_certs : BOOLEAN,
             verify_hostname : BOOLEAN, ca_certs : CaFiles \cup {None}]

\* Every variable stays in its type; a flow has a form, and a test an input.
TypeOK ==
    /\ accepted \subseteq Credentials \cup {None}
    /\ source \in {"none", "user", "reauth"}
    /\ step \in {"none", "started", "user", "certificate_issues", "basic_auth"}
    /\ source = "none" <=> step = "none"
    /\ error \in {"none", "cannot_connect", "untrusted_certificate",
                  "insufficient_privileges", "invalid_basic_auth"}
    /\ prospective \in Data /\ input \in Data
    /\ asked \in Settings \cup {None}
    /\ entry \in [data : Data, options : Options] \cup {None}
    /\ reload \in BOOLEAN
    /\ tested \in Settings \cup {None}
    /\ cause \in Faults \cup TooOld \cup {None}

\* Whatever way the user took through the forms, the entry holds the settings
\* of a test that succeeded: nothing was lost on the way from a form to
\* async_create_entry, and nothing was left over from a form given up.
EntryIsTested == entry # None => tested = TestSettings(entry.data)

\* A re-authentication changes the credentials of the entry and nothing else,
\* the options saved in the meantime included, and has the entry reloaded.
ReauthKeepsTheRest ==
    [][entry # None /\ entry' # None /\ entry'.data # entry.data =>
        /\ entry' = [entry EXCEPT !.data.credentials = entry'.data.credentials]
        /\ reload']_vars

\* The form and its complaint fit the fault that led to them, although the
\* exceptions in between are caught by classes that include one another.
FormsFitTheFault ==
    cause # None =>
        /\ step = "certificate_issues" => cause \in CertificateFaults
        /\ step = "user" => cause \in ConnectionFaults
        /\ step = "basic_auth" => cause \in Refusals
        /\ error = "insufficient_privileges" => cause.class = "AuthorizationException"
        /\ error = "invalid_basic_auth" => cause.class = "AuthenticationException"

\* OpenSearchIntegration makes its client of the stored data in another place
\* than the flow.  A server that passed the flow's test passes there too.
EntryAcceptsWhatWasTested ==
    entry # None =>
        LET client == ToClient(GatewayParameters(entry.data)) IN
        /\ [client EXCEPT !.tls = ToClient(tested).tls] = ToClient(tested)
        /\ client.tls \in {ToClient(tested).tls, [check_hostname |-> FALSE, ca |-> None]}

\* What docs/configure.md promises of certificates: the entry verifies them as
\* they were verified in the flow.
EntryRunsAsTested ==
    entry # None => ToClient(GatewayParameters(entry.data)) = ToClient(tested)

-----------------------------------------------------------------------------
(***************************************************************************)
(* ConfigEntryLifecycle knows a re-authentication by four actions and the  *)
(* entry's data by two flags.  Once the entry is there, this module does   *)
(* nothing that those do not allow.                                        *)
(***************************************************************************)

L == INSTANCE ConfigEntryLifecycle WITH
        accepted <- entry.data.credentials \in accepted,
        hasUsername <- entry.data.credentials # None,
        options <- entry.options,
        reauth <- CASE source # "reauth" -> "none"
                    [] source = "reauth" /\ step = "started" -> "started"
                    [] OTHER -> "form",
        reload <- reload,
        \* nothing is set up here
        entry <- "not_loaded", enabled <- FALSE, pc <- "idle", failure <- "none",
        client <- FALSE, clientAccepted <- FALSE, used <- None,
        listening <- FALSE, publisher <- "none", strays <- {},
        leaked <- 0, errors <- 0, broken <- 0, overtaken <- FALSE,
        Publishing <- {}, Detecting <- {}, MaxErrors <- 0, MaxBroken <- 0

\* Saved options leave a reload to be carried out, here always in a step of its
\* own (Reloaded).
LifecycleStep ==
    \/ L!Reauth \/ L!ReloadStarts \/ L!CredentialsRevoked
    \/ L!OptionsSaved /\ reload'
    \/ L!StartReauth /\ UNCHANGED <<reload, entry.data.credentials \in accepted,
                                    entry.data.credentials # None, entry.options>>

\* What the flows do to the entry is what the lives of the entry are checked
\* with.
FlowsRefineTheLifecycle == [][entry # None => LifecycleStep \/ UNCHANGED L!vars]_vars
=============================================================================
