------------------------------- MODULE Session -------------------------------
(***************************************************************************)
(* Encrypted session cookies (src/src/session/index.ts) while processes    *)
(* with different keys serve one browser: keys are rotated by a rolling    *)
(* deploy, requests overlap, answers arrive in any order, and the client   *)
(* may put anything into its cookie.                                       *)
(*                                                                         *)
(* A configuration has a version: its current key has that number and its  *)
(* legacy key, from version 2 on, the number before.  "broken" are keys of *)
(* a length their algorithm does not accept.  Where no keys are configured *)
(* the version tells nothing, and is 1.                                    *)
(***************************************************************************)
EXTENDS Integers

CONSTANTS Users, Requests,
          MaxVersion,   \* bound on the rotations of one behaviour
          NoUser

ASSUME SessionAssumption == MaxVersion \in Nat /\ NoUser \notin Users

Versions == 1..MaxVersion
Configs == {c \in [version : Versions, configured : BOOLEAN,
                   broken : {{}, {"current"}, {"legacy"}}] :
              /\ ~c.configured => c.broken = {} /\ c.version = 1
              /\ "legacy" \in c.broken => c.version > 1}

\* Cookies: none, a malformed value, or one sealed with a key for a user
\* (key 0: well formed, but sealed by nobody's key).
NoCookie == [kind |-> "none", key |-> 0, user |-> NoUser]
Malformed == [kind |-> "malformed", key |-> 0, user |-> NoUser]
Sealed(key, user) == [kind |-> "sealed", key |-> key, user |-> user]
Cookies == {NoCookie, Malformed, Sealed(0, NoUser)}
           \cup {Sealed(k, u) : k \in Versions, u \in Users}

VARIABLES
    production,  \* EnvInternal.isProduction, the same for every process
    jar,         \* the browser's session cookie
    session,     \* history: the session change delivered last, NoCookie if none
    tampered,    \* history: was the jar changed since other than by an answer?
    req          \* the browser's requests

sessionVars == <<production, jar, session, tampered, req>>

\* What a request carries: its cookie, what history says of it when it was
\* sent, the configuration that handled it, what the session read gave, and
\* the change of the jar its answer carries.
Idle == [phase |-> "idle"]
Ops == {[op |-> "read", user |-> NoUser], [op |-> "logout", user |-> NoUser]}
       \cup [op : {"login"}, user : Users]
Reads == Users \cup {NoUser, "throws"}

SessionTypeOK ==
    /\ production \in BOOLEAN
    /\ jar \in Cookies /\ session \in Cookies /\ tampered \in BOOLEAN
    /\ \A r \in Requests :
          \/ req[r] = Idle
          \/ req[r].phase = "sent" /\ req[r].op \in Ops /\ req[r].cookie \in Cookies
          \/ /\ req[r].phase = "answered" /\ req[r].read \in Reads
             /\ req[r].set \in {"keep", "clear", "seal"}

(***************************************************************************)
(* Encryption, InternalEncrypt                                             *)
(***************************************************************************)

\* External, Encrypt.decrypt with one key: a malformed value fails before the
\* key is looked at.
Attempt(cookie, key, isBroken) ==
    IF cookie.kind = "malformed" THEN "undecryptable"
    ELSE IF isBroken THEN "keylength"
    ELSE IF cookie.key = key THEN "decrypted" ELSE "undecryptable"

\* Mutant: only the current key is passed on.
AttemptsCurrentOnly(c, cookie) == {Attempt(cookie, c.version, "current" \in c.broken)}

\* The keys tried in turn: the current one, then the legacy one if any.
Attempts(c, cookie) ==
    {Attempt(cookie, c.version, "current" \in c.broken)} \cup
    IF c.version = 1 THEN {}
    ELSE {Attempt(cookie, c.version - 1, "legacy" \in c.broken)}

\* isUndecryptableCookieError: no key tried had the wrong length.
IsUndecryptable(attempts) == "keylength" \notin attempts

\* Session.getCookie: the user of the cookie, NoUser for null, or "throws".
GetCookie(c, cookie) ==
    LET attempts == Attempts(c, cookie) IN
    IF cookie.kind = "none" THEN NoUser
    ELSE IF ~c.configured THEN "throws"
    ELSE IF "decrypted" \in attempts THEN cookie.user
    ELSE IF IsUndecryptable(attempts) THEN NoUser ELSE "throws"

\* InternalEncrypt.encryptCookie needs a configuration and a usable key.
CanEncrypt(c) == c.configured /\ "current" \notin c.broken

\* PsychicApp.init: in production a configured key of the wrong length is
\* fatal, elsewhere a warning.  No keys at all is neither.
BootFails(c) == production /\ c.broken # {}

\* The configurations of the processes that a deploy leaves running at one
\* moment or another: every one that boots.
Running == {c \in Configs : ~BootFails(c)}

(***************************************************************************)
(* Actions                                                                 *)
(***************************************************************************)
SessionInit ==
    /\ production \in BOOLEAN
    /\ jar = NoCookie /\ session = NoCookie /\ tampered = FALSE
    /\ req = [r \in Requests |-> Idle]

\* External: the browser's cookie is forged, damaged, or expires.
Tamper ==
    /\ jar' \in {NoCookie, Malformed, Sealed(0, NoUser)} \ {jar}
    /\ tampered' = TRUE
    /\ UNCHANGED <<production, session, req>>

\* External: the browser sends its cookie along.
Send(r) ==
    \E o \in Ops :
       /\ req[r] = Idle
       /\ req' = [req EXCEPT ![r] = [phase |-> "sent", op |-> o, cookie |-> jar,
                                     session |-> IF tampered THEN jar ELSE session]]
       /\ UNCHANGED <<production, jar, session, tampered>>

Answered(r, c, set) ==
    req' = [req EXCEPT ![r] =
              [phase |-> "answered", op |-> req[r].op, cookie |-> req[r].cookie,
               session |-> req[r].session, config |-> c,
               read |-> GetCookie(c, req[r].cookie), set |-> set]]

\* Mutant: a cookie nobody can read is cleared.
ChangeOfUnreadable(c, q) ==
    IF GetCookie(c, q.cookie) = NoUser /\ q.cookie.kind # "none" THEN "clear"
    ELSE IF q.op.op = "login" /\ CanEncrypt(c) THEN "seal"
    ELSE IF q.op.op = "logout" THEN "clear" ELSE "keep"

\* What the answer does to the jar: nothing if reading the session threw,
\* startSession's cookie (or nothing, if it cannot be sealed) for a login,
\* and endSession's empty one for a logout.
Change(c, q) ==
    IF GetCookie(c, q.cookie) = "throws" THEN "keep"
    ELSE IF q.op.op = "login" /\ CanEncrypt(c) THEN "seal"
    ELSE IF q.op.op = "logout" THEN "clear" ELSE "keep"

\* A controller reads the session, as a before action does, and then serves
\* the request: startSession, endSession or neither.  Any process may get it.
Handle(r) ==
    \E c \in Running :
       /\ req[r].phase = "sent"
       /\ Answered(r, c, Change(c, req[r]))
       /\ UNCHANGED <<production, jar, session, tampered>>

\* What a request that was handled well means for the browser's session.
Meant(q) ==
    IF q.op.op = "login" /\ q.set # "keep" THEN Sealed(q.config.version, q.op.user)
    ELSE IF q.op.op = "logout" /\ q.set # "keep" THEN NoCookie ELSE session

\* The answer reaches the browser, in any order.
Deliver(r) ==
    LET q == req[r] IN
    /\ q.phase = "answered"
    /\ jar' = CASE q.set = "keep" -> jar
                [] q.set = "clear" -> NoCookie
                [] q.set = "seal" -> Sealed(q.config.version, q.op.user)
    /\ session' = Meant(q)
    /\ tampered' = (tampered /\ (q.op.op = "read" \/ q.set = "keep"))
    /\ req' = [req EXCEPT ![r] = Idle]
    /\ UNCHANGED production

SessionNext ==
    \/ Tamper
    \/ \E r \in Requests : Send(r) \/ Handle(r) \/ Deliver(r)

SessionSpec == SessionInit /\ [][SessionNext]_sessionVars

(***************************************************************************)
(* Properties                                                              *)
(***************************************************************************)

Sound(c) == c.configured /\ c.broken = {}

\* Only logins and logouts change the session of a browser nobody tampers
\* with.  A process with an older key reads a fresh cookie as absent, and must
\* leave it in place: clearing it "could wipe a fresh session cookie set by a
\* concurrent login".
SessionSurvives == ~tampered => jar = session

\* Through a rotation, a request is served as the user who was logged in when
\* it was sent, by the version that user logged in on and by the next one; by
\* any other it is served as nobody's, and never as somebody else's.
ServedAsWhoLoggedIn ==
    \A r \in Requests :
       LET q == req[r] IN
       q.phase = "answered" /\ Sound(q.config) =>
          q.read = IF q.session.kind = "sealed" /\ q.session.key > 0
                      /\ q.config.version - q.session.key \in {0, 1}
                   THEN q.session.user ELSE NoUser
=============================================================================
