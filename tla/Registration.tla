----------------------------- MODULE Registration ---------------------------
(***************************************************************************)
(* One IRC connection, from the first line its peer sends to the end of    *)
(* Client.Run: the command handlers of internal/ilayer, the methods of     *)
(* internal/client they call, and the two loops of Client.Run.  The peer   *)
(* may send any command at any time, and each handler runs to its end      *)
(* before the next line is read.                                           *)
(*                                                                         *)
(* PING, CAP LIST and unknown commands change nothing and are left out.    *)
(* What the server behind the connection answers (a session or none, a     *)
(* failing request) is chosen freely.                                      *)
(***************************************************************************)
EXTENDS Integers

CONSTANTS
    Logins,         \* the sessions a PASS can lead to
    Guilds,         \* the guilds a PASS can name
    Capabilities,   \* supportedCapabilities
    NoSession, NoGuild

ASSUME RegistrationAssumption ==
    NoSession \notin Logins /\ NoGuild \notin Guilds

VARIABLES
    run,            \* where Client.Run is
    nickname,       \* the nickname is not the empty string
    username,       \* the same of the user name
    realname,       \* the same of the real name
    isCapBlocked,   \* a capability negotiation is open
    isRegistered,
    capabilities,   \* the capabilities the peer asked for
    session,        \* Client.session, NoSession for nil
    guild,          \* Client.guild
    events,         \* the session whose events the second loop receives
    welcomes        \* how often RPL_WELCOME was sent, counted up to two

vars == <<run, nickname, username, realname, isCapBlocked, isRegistered,
          capabilities, session, guild, events, welcomes>>

names == <<nickname, username, realname>>
login == <<session, guild>>
served == <<isRegistered, welcomes>>

(***************************************************************************)
(* login     the loop until the client is registered                       *)
(* serve     the loop after it                                             *)
(* ended     Run returned                                                  *)
(* crashed   a handler panicked, which ends the process                    *)
(***************************************************************************)
TypeOK ==
    /\ run \in {"login", "serve", "ended", "crashed"}
    /\ nickname \in BOOLEAN /\ username \in BOOLEAN /\ realname \in BOOLEAN
    /\ isCapBlocked \in BOOLEAN
    /\ isRegistered \in BOOLEAN
    /\ capabilities \subseteq Capabilities
    /\ session \in Logins \cup {NoSession}
    /\ guild \in Guilds \cup {NoGuild}
    /\ events \in Logins \cup {NoSession}
    /\ welcomes \in 0..2

Init ==
    /\ run = "login"
    /\ nickname = FALSE /\ username = FALSE /\ realname = FALSE
    /\ isCapBlocked = FALSE
    /\ isRegistered = FALSE
    /\ capabilities = {}
    /\ session = NoSession
    /\ guild = NoGuild
    /\ events = NoSession
    /\ welcomes = 0

----------------------------------------------------------------------------
(***************************************************************************)
(* A line is handled in one of the two loops; the first one is left before *)
(* the next line when the client is registered.                            *)
(***************************************************************************)
Reading == run = "serve" \/ (run = "login" /\ ~isRegistered)

Fail == run' = "ended"

(***************************************************************************)
(* maybeCompleteRegistration, at the end of the handlers of PASS, NICK,    *)
(* USER and CAP END, on the values these have set.                         *)
(***************************************************************************)
ReadyAgain == nickname' /\ username' /\ realname' /\ ~isCapBlocked'

Ready == ~isRegistered /\ nickname' /\ username' /\ realname' /\ ~isCapBlocked'

(***************************************************************************)
(* HandleRegister fails without a session, and may fail with one when it   *)
(* asks Discord for the user and the channels.                             *)
(***************************************************************************)
RegisterUnchecked == TRUE
HasSession == session' # NoSession

(***************************************************************************)
(* The burst of replies may fail before RPL_WELCOME, when the guild cannot *)
(* be found, and after it.  The client counts as registered nonetheless.   *)
(***************************************************************************)
Welcome == welcomes' = IF welcomes < 2 THEN welcomes + 1 ELSE 2

MaybeCompleteRegistration ==
    \/ ~Ready /\ UNCHANGED <<run, served>>
    \/ Ready /\ Fail /\ UNCHANGED served
    \/ /\ Ready /\ HasSession
       /\ isRegistered' = TRUE
       /\ \/ Welcome /\ UNCHANGED run
          \/ Welcome /\ Fail
          \/ Fail /\ UNCHANGED welcomes

----------------------------------------------------------------------------
(***************************************************************************)
(* CAP LS and CAP REQ open a negotiation, CAP END ends it.  A request for  *)
(* an unknown capability is an error, and so ends the connection, after    *)
(* the ones that stood before it have been enabled.                        *)
(***************************************************************************)
CapLs ==
    /\ Reading
    /\ isCapBlocked' = TRUE
    /\ UNCHANGED <<run, names, served, capabilities, login, events>>

CapReqUnchecked(requested) ==
    /\ Reading
    /\ capabilities' = capabilities \cup requested
    /\ isCapBlocked' = TRUE
    /\ UNCHANGED <<run, names, served, login, events>>

CapReq(requested) ==
    /\ Reading
    /\ \/ /\ requested \subseteq Capabilities
          /\ capabilities' = capabilities \cup requested
          /\ isCapBlocked' = TRUE
          /\ UNCHANGED run
       \/ /\ ~(requested \subseteq Capabilities)
          /\ \E seen \in SUBSET (requested \cap Capabilities) :
                capabilities' = capabilities \cup seen
          /\ Fail
          /\ UNCHANGED isCapBlocked
    /\ UNCHANGED <<names, served, login, events>>

CapEndForgets ==
    /\ Reading
    /\ isCapBlocked' = FALSE
    /\ UNCHANGED <<run, served, names, capabilities, login, events>>

CapEnd ==
    /\ Reading
    /\ isCapBlocked' = FALSE
    /\ UNCHANGED <<names, capabilities, login, events>>
    /\ MaybeCompleteRegistration

(***************************************************************************)
(* PASS gives the session back that an earlier PASS has got, whatever      *)
(* comes of the new token.  Without a guild in the password the guild of   *)
(* the earlier one stays.                                                  *)
(***************************************************************************)
PassRefused ==
    /\ Reading
    /\ session' = NoSession
    /\ Fail
    /\ UNCHANGED <<names, isCapBlocked, served, capabilities, guild, events>>

PassWithoutGuild(s) ==
    /\ Reading
    /\ session' = s
    /\ UNCHANGED <<names, isCapBlocked, capabilities, guild, events>>
    /\ MaybeCompleteRegistration

PassWithGuild(s, g) ==
    /\ Reading
    /\ session' = s
    /\ guild' = g
    /\ UNCHANGED <<names, isCapBlocked, capabilities, events>>
    /\ MaybeCompleteRegistration

PassGuildUnknown(s) ==
    /\ Reading
    /\ session' = s
    /\ Fail
    /\ UNCHANGED <<names, isCapBlocked, served, capabilities, guild, events>>

Pass ==
    \/ PassRefused
    \/ \E s \in Logins :
        PassWithoutGuild(s) \/ PassGuildUnknown(s) \/ \E g \in Guilds : PassWithGuild(s, g)

(***************************************************************************)
(* NICK.  After the registration it changes the nick in the guild: outside *)
(* of one, and when Discord refuses, the handler drops the error.          *)
(***************************************************************************)
Nick(given) ==
    /\ Reading
    /\ isRegistered => guild # NoGuild
    /\ nickname' = given
    /\ UNCHANGED <<username, realname, isCapBlocked, capabilities, login, events>>
    /\ MaybeCompleteRegistration

NickRefused ==
    /\ Reading
    /\ isRegistered
    /\ UNCHANGED vars

(***************************************************************************)
(* USER, which is an error after the registration.                         *)
(***************************************************************************)
User(name, real) ==
    /\ Reading
    /\ ~isRegistered
    /\ username' = name
    /\ realname' = real
    /\ UNCHANGED <<nickname, isCapBlocked, capabilities, login, events>>
    /\ MaybeCompleteRegistration

UserAgain ==
    /\ Reading
    /\ isRegistered
    /\ Fail
    /\ UNCHANGED <<names, isCapBlocked, served, capabilities, login, events>>

(***************************************************************************)
(* JOIN, PRIVMSG, LIST and WHOIS use the session; no handler looks whether *)
(* there is one, or whether the client is registered.  With a session, the *)
(* command succeeds, ends the connection with an error, or crashes too:    *)
(* looking up the empty name panics (idmap.go:122-125).                    *)
(***************************************************************************)
UseSession ==
    /\ Reading
    /\ \/ session = NoSession /\ run' = "crashed"
       \/ session # NoSession /\ run' \in {run, "ended", "crashed"}
    /\ UNCHANGED <<names, isCapBlocked, served, capabilities, login, events>>

(***************************************************************************)
(* A line with too few or too many parameters, a connection that breaks    *)
(* or is closed.                                                           *)
(***************************************************************************)
Hangup ==
    /\ Reading
    /\ Fail
    /\ UNCHANGED <<names, isCapBlocked, served, capabilities, login, events>>

(***************************************************************************)
(* The first loop ends, and Run subscribes to the events of the session.   *)
(***************************************************************************)
Subscribe ==
    /\ run = "login"
    /\ isRegistered
    /\ run' = "serve"
    /\ events' = session
    /\ UNCHANGED <<names, isCapBlocked, served, capabilities, login>>

Over == run \in {"ended", "crashed"} /\ UNCHANGED vars

Next ==
    \/ CapLs \/ CapEnd
    \/ \E requested \in SUBSET (Capabilities \cup {"unknown"}) \ {{}} : CapReq(requested)
    \/ Pass
    \/ \E given \in BOOLEAN : Nick(given)
    \/ NickRefused
    \/ \E name, real \in BOOLEAN : User(name, real)
    \/ UserAgain
    \/ UseSession
    \/ Hangup
    \/ Subscribe
    \/ Over

Spec == Init /\ [][Next]_vars

----------------------------------------------------------------------------
(***************************************************************************)
(* Whatever the order in which the peer sends PASS, NICK, USER and the end *)
(* of the negotiation, the last one of them completes the registration: no *)
(* client that has sent them all is left waiting (commands.go:36-43).      *)
(***************************************************************************)
NotForgotten ==
    run = "login" /\ nickname /\ username /\ realname /\ ~isCapBlocked => isRegistered

(***************************************************************************)
(* The second loop never runs without a session, although PASS drops the   *)
(* session at any time: Run would call methods of nil (client.go:120-147). *)
(***************************************************************************)
ServesSession ==
    isRegistered /\ run \in {"login", "serve"} => session # NoSession

(***************************************************************************)
(* A connection is welcomed at most once, however often its peer repeats   *)
(* the commands that complete a registration.                              *)
(***************************************************************************)
WelcomedOnce == welcomes <= 1

(***************************************************************************)
(* "Functions are not called before registration unless otherwise stated"  *)
(* (ilayer/server.go:10), and it is not stated of the ones that JOIN,      *)
(* PRIVMSG, LIST and WHOIS call.                                           *)
(***************************************************************************)
CalledAfterRegistration == [][UseSession => isRegistered]_vars
=============================================================================
