---------------------------- MODULE SessionAuth ----------------------------
(* Plugins that log a browser in through an identity provider and know it    *)
(* again by a cookie: authz-casdoor, dingtalk-auth, feishu-auth, cas-auth and *)
(* saml-auth, and csrf, whose cookie is a token of its own.                   *)
(*                                                                            *)
(* A cookie is what was sealed or signed into it.  Nothing takes a cookie     *)
(* away from a client: a request may present any cookie ever issued.  An      *)
(* update of the plugin's settings is a new instance, with another secret     *)
(* (the old one kept as a fallback or not) or for another application; the    *)
(* sessions of cas-auth live in the process and stay.                         *)
EXTENDS Integers, Sequences, FiniteSets

CONSTANTS Requests,       \* requests in flight
          Settings,       \* plugin settings the route may have
          Users, Nobody,
          Tickets,        \* tickets a CAS server may hand out
          Capacity,       \* sessions cas-auth keeps
          StateLife,      \* OAuthStateLifetime, stateLifetime
          SessionLife,    \* cookie_expires_in, sessionLifetime
          IssueDelay,     \* saml.MaxIssueDelay
          Skew,           \* saml.MaxClockSkew
          MaxClock,       \* bound: the clock stops here
          MaxCookies,     \* bound: cookies issued
          MaxInstances    \* bound: instances of the plugin

VARIABLES cfg,        \* the settings that stay the same in all instances
          clock,
          insts,      \* instances so far: secret, fallbacks, application
          jar,        \* cookies issued so far
          replay,     \* per instance: state cookie -> end of its replay entry
          sessions,   \* cas-auth: sessions, least recently used first
          ended,      \* history: cas-auth sessions ended by a logout
          accepted,   \* history: <<instance, state cookie>> accepted once, and again
          reqs

vars == <<cfg, clock, insts, jar, replay, sessions, ended, accepted, reqs>>

OAuthPlugins == {"dingtalk", "feishu"}

(* Settings after the defaults.                                              *)
CasdoorConfigs == [plugin : {"casdoor"}]
DingtalkConfigs == [plugin : {"dingtalk"}, header : BOOLEAN]
FeishuConfigs == [plugin : {"feishu"}, header : BOOLEAN]
CASConfigs == [plugin : {"cas"}, trusted : BOOLEAN]
SAMLConfigs == [plugin : {"saml"}, post : BOOLEAN]
CSRFConfigs == [plugin : {"csrf"}, expires : Nat]

SessionConfig ==
  /\ \A x \in Settings :
       \/ x \in CasdoorConfigs \/ x \in DingtalkConfigs \/ x \in FeishuConfigs
       \/ x \in CASConfigs \/ x \in SAMLConfigs \/ x \in CSRFConfigs
  /\ Nobody \notin Users
  /\ Capacity \in Nat \ {0} /\ StateLife \in Nat \ {0} /\ SessionLife \in Nat
  /\ IssueDelay \in Nat /\ Skew \in Nat
  /\ MaxClock \in Nat /\ MaxCookies \in Nat /\ MaxInstances \in Nat \ {0}

(* What a request keeps while the provider is asked: its instance, and the   *)
(* state (authz-casdoor) or the ticket (cas-auth) it came with.              *)
Idle == [phase |-> "idle", inst |-> 0, keeps |-> 0, status |-> 0, via |-> 0, user |-> Nobody,
         info |-> Nobody]

Init ==
  /\ cfg \in Settings
  /\ clock = 1
  /\ insts = <<[secret |-> 1, old |-> {}, app |-> 1]>>
  /\ jar = <<>>
  /\ replay = [i \in 1 .. MaxInstances |-> <<>>]
  /\ sessions = <<>> /\ ended = {} /\ accepted = [once |-> {}, again |-> {}]
  /\ reqs = [r \in Requests |-> Idle]

Cookies == DOMAIN jar

(* What the upstream finds in X-Userinfo: the user, nobody, or what the       *)
(* client sent, for the plugins that do not touch it.                        *)
AttachExternalUser(user) ==
  IF cfg.plugin \in OAuthPlugins THEN (IF cfg.header THEN user ELSE Nobody)
  ELSE IF cfg.plugin = "saml" THEN user ELSE "client"

Finish(r, i, via, user) ==
  reqs' = [reqs EXCEPT ![r] = [Idle EXCEPT !.phase = "done", !.status = 200, !.inst = i,
                                 !.via = via, !.user = user, !.info = AttachExternalUser(user)]]
Refuse(r, status) ==
  reqs' = [reqs EXCEPT ![r] = [Idle EXCEPT !.phase = "done", !.status = status]]
Wait(r, phase) == reqs' = [reqs EXCEPT ![r].phase = phase]
Begin(r, i, keeps) ==
  reqs' = [reqs EXCEPT ![r] = [Idle EXCEPT !.phase = "token", !.inst = i, !.keeps = keeps]]

Tick ==
  /\ clock < MaxClock /\ clock' = clock + 1
  /\ UNCHANGED <<cfg, insts, jar, replay, sessions, ended, accepted, reqs>>

(* New settings: another secret, with or without the old as a fallback, or   *)
(* the same secret for another application.                                  *)
Reconfigure ==
  /\ Len(insts) < MaxInstances
  /\ LET last == insts[Len(insts)] IN
     \/ \E old \in {{}, {last.secret}} :
          insts' = Append(insts, [secret |-> last.secret + 1, old |-> old, app |-> last.app])
     \/ insts' = Append(insts, [last EXCEPT !.app = last.app + 1])
  /\ UNCHANGED <<cfg, clock, jar, replay, sessions, ended, accepted, reqs>>

Places == CASE cfg.plugin \in OAuthPlugins -> {"page"}
            [] cfg.plugin = "casdoor" -> {"page", "callback"}
            [] cfg.plugin = "cas" -> {"page", "callback", "logout", "idp_logout"}
            [] cfg.plugin = "saml" -> {"page", "callback", "logout", "idp_request", "idp_response"}
            [] cfg.plugin = "csrf" -> {"page", "safe"}
Codes == IF cfg.plugin \in OAuthPlugins THEN {"none", "query", "header"}
         ELSE IF cfg.plugin = "casdoor" THEN {"none", "query"}
         ELSE IF cfg.plugin = "cas" THEN {"none"} \union Tickets ELSE {"none"}
(* What a request shows: the place it asks for, a session and a state cookie *)
(* (0: none), the state or correlation it names, its code, its ticket cookie. *)
Shown(kind) == {0} \union {c \in Cookies : jar[c].kind = kind}

(* A cookie the handler does not read is not shown to it.                    *)
ReadsSession(x) ==
  CASE cfg.plugin = "saml" -> x.at \in {"page", "logout"}
    [] cfg.plugin = "csrf" -> x.at = "page"
    [] OTHER -> TRUE
ReadsState(x) ==
  CASE cfg.plugin = "saml" -> x.at \in {"callback", "idp_response"}
    [] cfg.plugin = "cas" -> x.at = "callback" /\ x.code # "none"
    [] OTHER -> x.code = "query"

Shows ==
  {x \in [at : Places, session : Shown("session"), state : Shown("state"), code : Codes,
          ticket : IF cfg.plugin = "cas" THEN Tickets \union {"none"} ELSE {"none"},
          names : {0} \union Cookies] :
     /\ x.names \in (IF cfg.plugin = "cas" THEN {0} ELSE {0, x.state}) \union (IF cfg.plugin \in {"casdoor", "csrf"} THEN {x.session} ELSE {})
     /\ x.session # 0 => ReadsSession(x)
     /\ x.state # 0 => ReadsState(x)}
Ready(r) == reqs[r].phase \in {"idle", "done"}

(***************************************************************************)
(* Sealed and signed values                                                  *)
(***************************************************************************)
(* Seals or signs with the instance's own secret.                            *)
Issue(i, kind, user, state, life) ==
  /\ Len(jar) < MaxCookies
  /\ jar' = Append(jar, [kind |-> kind, secret |-> insts[i].secret, app |-> insts[i].app, user |-> user,
                         state |-> state, exp |-> clock + life, born |-> clock])

VerifySessionValue_AnyOld(i, c) == c # 0 /\ jar[c].secret <= insts[i].secret

(* Signed values: any of the instance's secrets will do.                     *)
VerifySessionValue(i, c) == c # 0 /\ jar[c].secret \in {insts[i].secret} \union insts[i].old

Unexpired(c) == clock < jar[c].exp
SameApplication(i, c) == jar[c].app = insts[i].app

(* Sealed values carry their end and the fingerprint of the settings.        *)
OpenOAuthSession(i, c) == VerifySessionValue(i, c) /\ Unexpired(c) /\ SameApplication(i, c)

(* A state cookie is good once within its lifetime: expired entries are      *)
(* dropped first.                                                            *)
ReplayLife_Shorter == StateLife - 1
ReplayLife == StateLife
Live(i) == {c \in DOMAIN replay[i] : replay[i][c] > clock}
Consume(i, c) ==
  /\ c \notin Live(i)
  /\ replay' = [replay EXCEPT ![i] =
                  [d \in Live(i) \union {c} |-> IF d = c THEN clock + ReplayLife ELSE replay[i][d]]]
  /\ accepted' = [once |-> accepted.once \union {<<i, c>>},
                  again |-> accepted.again \union (accepted.once \intersect {<<i, c>>})]

(***************************************************************************)
(* authz-casdoor: one cookie holds the state and, after the login, the token *)
(***************************************************************************)
(* The provider names a user and a lifetime; a seal needs a positive one.    *)
FetchAccessToken == [user : Users \union {Nobody}, life : {-1, 0, SessionLife}]
SetSessionCookie(i, user, state, life) == life > 0 /\ Issue(i, "session", user, state, life)

Authenticated(i, c) == OpenOAuthSession(i, c) /\ jar[c].user # Nobody

CasdoorHandler(r, i, s) ==
  /\ cfg.plugin = "casdoor" /\ Ready(r) /\ s.at = "page"
  /\ \/ /\ Authenticated(i, s.session) /\ UNCHANGED jar
        /\ Finish(r, i, s.session, jar[s.session].user)
     \/ /\ ~Authenticated(i, s.session) /\ SetSessionCookie(i, Nobody, Len(jar) + 1, StateLife)
        /\ Refuse(r, 302)
  /\ UNCHANGED <<cfg, clock, insts, replay, sessions, ended, accepted>>

CasdoorCallback(r, i, s) ==
  /\ cfg.plugin = "casdoor" /\ Ready(r) /\ s.at = "callback"
  /\ \/ /\ ~OpenOAuthSession(i, s.session) /\ Refuse(r, 503)
     \/ /\ OpenOAuthSession(i, s.session) /\ (s.code = "none" \/ s.names = 0) /\ Refuse(r, 400)
     \/ /\ OpenOAuthSession(i, s.session) /\ s.code # "none" /\ s.names # 0
        /\ IF jar[s.names].state = jar[s.session].state THEN Begin(r, i, jar[s.session].state) ELSE Refuse(r, 400)
  /\ UNCHANGED <<cfg, clock, insts, jar, replay, sessions, ended, accepted>>

CasdoorToken(r) ==
  /\ cfg.plugin = "casdoor" /\ reqs[r].phase = "token"
  /\ \E t \in FetchAccessToken :
       \/ (t.user = Nobody \/ t.life = 0) /\ Refuse(r, 503) /\ UNCHANGED jar
       \/ t.user # Nobody /\ t.life < 0 /\ Refuse(r, 500) /\ UNCHANGED jar
       \/ /\ t.user # Nobody /\ SetSessionCookie(reqs[r].inst, t.user, reqs[r].keeps, t.life)
          /\ Refuse(r, 302)
  /\ UNCHANGED <<cfg, clock, insts, replay, sessions, ended, accepted>>

(***************************************************************************)
(* dingtalk-auth and feishu-auth                                             *)
(***************************************************************************)
(* The session cookie is signed and not bound to the application.            *)
UserInfoFromSession(i, c) == VerifySessionValue(i, c) /\ Unexpired(c)

VerifyAndConsumeOAuthState(i, s) ==
  OpenOAuthSession(i, s.state) /\ s.names = s.state /\ Consume(i, s.state)
StateRefused(i, s) ==
  ~OpenOAuthSession(i, s.state) \/ s.names # s.state \/ s.state \in Live(i)

RedirectToProvider(r, i) == Issue(i, "state", Nobody, 0, StateLife) /\ Refuse(r, 302)
SessionCookie(i, user) == Issue(i, "session", user, 0, SessionLife)

(* A code in the header needs no state; one in the query does; without a     *)
(* code the browser is sent to the provider with a new state.                *)
OAuthHandler(r, i, s) ==
  /\ Ready(r)
  /\ \/ /\ UserInfoFromSession(i, s.session) /\ Finish(r, i, s.session, jar[s.session].user)
        /\ UNCHANGED <<jar, replay, accepted>>
     \/ /\ ~UserInfoFromSession(i, s.session)
        /\ \/ /\ s.code = "header" /\ Begin(r, i, 0) /\ UNCHANGED <<jar, replay, accepted>>
           \/ /\ s.code = "none" /\ RedirectToProvider(r, i)
              /\ UNCHANGED <<replay, accepted>>
           \/ /\ s.code = "query" /\ StateRefused(i, s) /\ Refuse(r, 401)
              /\ UNCHANGED <<jar, replay, accepted>>
           \/ /\ s.code = "query" /\ VerifyAndConsumeOAuthState(i, s) /\ Begin(r, i, 0)
              /\ UNCHANGED jar
  /\ UNCHANGED <<cfg, clock, insts, sessions, ended>>

DingtalkHandler(r, i, s) == cfg.plugin = "dingtalk" /\ OAuthHandler(r, i, s)
FeishuHandler(r, i, s) == cfg.plugin = "feishu" /\ OAuthHandler(r, i, s)

(* One token of the application, cached or fetched.                          *)
DingtalkAccessToken(r) ==
  /\ cfg.plugin = "dingtalk" /\ reqs[r].phase = "token"
  /\ Wait(r, "userinfo") \/ Refuse(r, 500)
  /\ UNCHANGED <<cfg, clock, insts, jar, replay, sessions, ended, accepted>>

DingtalkUserInfo(r) ==
  /\ cfg.plugin = "dingtalk" /\ reqs[r].phase = "userinfo"
  /\ \/ (Refuse(r, 401) \/ Refuse(r, 503)) /\ UNCHANGED jar
     \/ \E user \in Users : SessionCookie(reqs[r].inst, user)
                            /\ Finish(r, reqs[r].inst, Len(jar) + 1, user)
  /\ UNCHANGED <<cfg, clock, insts, replay, sessions, ended, accepted>>

(* A token for every code.                                                   *)
FeishuAccessToken(r) ==
  /\ cfg.plugin = "feishu" /\ reqs[r].phase = "token"
  /\ Wait(r, "userinfo") \/ Refuse(r, 401)
  /\ UNCHANGED <<cfg, clock, insts, jar, replay, sessions, ended, accepted>>

FeishuUserInfo(r) ==
  /\ cfg.plugin = "feishu" /\ reqs[r].phase = "userinfo"
  /\ \/ Refuse(r, 401) /\ UNCHANGED jar
     \/ \E user \in Users : SessionCookie(reqs[r].inst, user)
                            /\ Finish(r, reqs[r].inst, Len(jar) + 1, user)
  /\ UNCHANGED <<cfg, clock, insts, replay, sessions, ended, accepted>>

(***************************************************************************)
(* cas-auth: sessions in the process, named by the ticket                     *)
(***************************************************************************)
SessionKey(i, ticket) == <<insts[i].app, ticket>>
Held == {sessions[k].key : k \in {k \in DOMAIN sessions : clock < sessions[k].exp}}
Without(key) == SelectSeq(sessions, LAMBDA e : e.key # key)
Put(key) ==
  LET added == Append(Without(key), [key |-> key, exp |-> clock + SessionLife]) IN
  sessions' = IF Len(added) > Capacity THEN Tail(added) ELSE added

Refresh_Readds(key) == Put(key)

(* Looked up and put back under one lock: a session a logout removed         *)
(* meanwhile stays removed.                                                  *)
Refresh(key) == IF key \in Held THEN Put(key) ELSE sessions' = Without(key)

RefreshSession(r, i, s) ==
  LET key == SessionKey(i, s.ticket) IN
  /\ cfg.plugin = "cas" /\ Ready(r)
  /\ s.at # "logout" /\ s.ticket # "none"
  /\ Refresh(key)
  /\ \/ /\ key \in {sessions'[k].key : k \in DOMAIN sessions'}
        /\ Finish(r, i, 0, Nobody) /\ UNCHANGED jar
     \/ /\ key \notin {sessions'[k].key : k \in DOMAIN sessions'}
        /\ Issue(i, "state", Nobody, 0, MaxClock) /\ Refuse(r, 302)
  /\ UNCHANGED <<cfg, clock, insts, replay, ended, accepted>>

(* Where the browser came from is signed into a cookie without an end.       *)
FirstAccess(r, i, s) ==
  /\ cfg.plugin = "cas" /\ Ready(r) /\ s.ticket = "none"
  /\ \/ s.at = "page"
     \/ s.at = "callback" /\ s.code = "none"
  /\ Issue(i, "state", Nobody, 0, MaxClock) /\ Refuse(r, 302)
  /\ UNCHANGED <<cfg, clock, insts, replay, sessions, ended, accepted>>

(* The cookie must be of the instance's own secret; then the server is asked. *)
ValidateWithCAS(r, i, s) ==
  /\ cfg.plugin = "cas" /\ Ready(r) /\ s.at = "callback"
  /\ s.ticket = "none" /\ s.code # "none"
  /\ LET c == s.state IN
     IF c # 0 /\ jar[c].secret = insts[i].secret THEN Begin(r, i, s.code) ELSE Refuse(r, 401)
  /\ UNCHANGED <<cfg, clock, insts, jar, replay, sessions, ended, accepted>>

ParseCASUser == Users \union {Nobody}
ValidateTicket(r) ==
  /\ cfg.plugin = "cas" /\ reqs[r].phase = "token"
  /\ LET key == SessionKey(reqs[r].inst, reqs[r].keeps) IN
     \E user \in ParseCASUser :
       \/ user = Nobody /\ Refuse(r, 401) /\ UNCHANGED <<sessions, ended>>
       \/ user # Nobody /\ Put(key) /\ ended' = ended \ {key} /\ Refuse(r, 302)
  /\ UNCHANGED <<cfg, clock, insts, jar, replay, accepted>>

RemoveSession(key) ==
  /\ sessions' = Without(key)
  /\ ended' = IF \E k \in DOMAIN sessions : sessions[k].key = key THEN ended \union {key} ELSE ended

(* From the browser.                                                         *)
CASLogout(r, i, s) ==
  /\ cfg.plugin = "cas" /\ Ready(r) /\ s.at = "logout"
  /\ \/ /\ s.ticket = "none" /\ Refuse(r, 401) /\ UNCHANGED <<sessions, ended>>
     \/ /\ s.ticket # "none" /\ RemoveSession(SessionKey(i, s.ticket))
        /\ Refuse(r, 302)
  /\ UNCHANGED <<cfg, clock, insts, jar, replay, accepted>>

(* From the server, over a trusted address, naming one session.              *)
TrustedLogoutPeer(peer) == cfg.trusted /\ peer
HandleIDPLogout(r, i, s) ==
  /\ cfg.plugin = "cas" /\ Ready(r) /\ s.at = "idp_logout"
  /\ s.ticket = "none"
  /\ \/ \E peer \in BOOLEAN :
          ~TrustedLogoutPeer(peer) /\ Refuse(r, 403) /\ UNCHANGED <<sessions, ended>>
     \/ /\ TrustedLogoutPeer(TRUE) /\ s.code = "none" /\ Refuse(r, 400) /\ UNCHANGED <<sessions, ended>>
     \/ /\ TrustedLogoutPeer(TRUE) /\ s.code # "none" /\ RemoveSession(SessionKey(i, s.code))
        /\ Refuse(r, 204)
  /\ UNCHANGED <<cfg, clock, insts, jar, replay, accepted>>

(***************************************************************************)
(* saml-auth                                                                 *)
(***************************************************************************)
(* The name of a cookie holds the fingerprint of the settings.               *)
CookieGood(i, c) == VerifySessionValue(i, c) /\ SameApplication(i, c) /\ Unexpired(c)
SessionUser(i, c) == CookieGood(i, c) /\ jar[c].user # Nobody

RequestCookie(i) == Issue(i, "state", Nobody, Len(jar) + 1, StateLife)
LogoutCookie(i) == Issue(i, "state", Nobody, Len(jar) + 1, StateLife)
SAMLSessionCookie(i, user, answers) == Issue(i, "session", user, answers, SessionLife)

(* 201 is the form a browser posts to the provider.                          *)
SAMLHandler(r, i, s) ==
  /\ cfg.plugin = "saml" /\ Ready(r) /\ s.at = "page"
  /\ \/ /\ SessionUser(i, s.session) /\ UNCHANGED jar
        /\ Finish(r, i, s.session, jar[s.session].user)
     \/ /\ ~SessionUser(i, s.session) /\ UNCHANGED jar /\ Refuse(r, 500)
     \/ /\ ~SessionUser(i, s.session) /\ RequestCookie(i)
        /\ Refuse(r, IF cfg.post THEN 201 ELSE 302)
  /\ UNCHANGED <<cfg, clock, insts, replay, sessions, ended, accepted>>

HandleCallback_AnyResponse(i, s, answers) == CookieGood(i, s.state)

(* The assertion must answer the request the browser's state cookie names.  *)
HandleCallback(i, s, answers) ==
  CookieGood(i, s.state) /\ s.names = s.state /\ answers = jar[s.state].state

(* An assertion without a name makes a session nobody is known by.           *)
UserFromAssertion == Users \union {Nobody}

(* "answers" is the request the assertion was made for.                     *)
SAMLCallback(r, i, s) ==
  /\ cfg.plugin = "saml" /\ Ready(r) /\ s.at = "callback"
  /\ \E answers \in Cookies \union {0}, user \in UserFromAssertion :
       \/ /\ HandleCallback(i, s, answers) /\ SAMLSessionCookie(i, user, answers)
          /\ Refuse(r, 302)
       \/ /\ ~HandleCallback(i, s, answers) /\ UNCHANGED jar
          /\ Refuse(r, IF CookieGood(i, s.state) /\ s.names = s.state THEN 500 ELSE 401)
  /\ UNCHANGED <<cfg, clock, insts, replay, sessions, ended, accepted>>

(* Only the browser forgets the session; a logout state is issued.          *)
SAMLLogout(r, i, s) ==
  /\ cfg.plugin = "saml" /\ Ready(r) /\ s.at = "logout"
  /\ \/ Refuse(r, 302) /\ UNCHANGED jar
     \/ SessionUser(i, s.session) /\ Refuse(r, 500) /\ UNCHANGED jar
     \/ SessionUser(i, s.session) /\ LogoutCookie(i) /\ Refuse(r, 303)
  /\ UNCHANGED <<cfg, clock, insts, replay, sessions, ended, accepted>>

(* A signed message of the provider: not too old, not of the future, for us. *)
LogoutMessages ==
  [redirect : BOOLEAN, signed : BOOLEAN, forUs : BOOLEAN,
   issued : 0 .. MaxClock + Skew + 1, until : 0 .. MaxClock]
VerifySAMLRedirectSignature(m) == m.redirect /\ m.signed
ValidateSignedSAMLXML(m) == ~m.redirect /\ m.signed
Genuine(m) == (VerifySAMLRedirectSignature(m) \/ ValidateSignedSAMLXML(m)) /\ m.forUs
Timely(m) == m.issued + IssueDelay >= clock /\ m.issued <= clock + Skew
ValidateLogoutRequest(m) == Genuine(m) /\ Timely(m) /\ (m.until = 0 \/ m.until + Skew >= clock)
ValidateLogoutResponse(m) == Genuine(m) /\ Timely(m)

HandleLogoutRequest(r, i, s) ==
  /\ cfg.plugin = "saml" /\ Ready(r) /\ s.at = "idp_request"
  /\ \E valid \in {ValidateLogoutRequest(m) : m \in LogoutMessages} :
       Refuse(r, IF valid THEN 303 ELSE 401)
  /\ UNCHANGED <<cfg, clock, insts, jar, replay, sessions, ended, accepted>>

HandleLogoutResponse(r, i, s) ==
  /\ cfg.plugin = "saml" /\ Ready(r) /\ s.at = "idp_response"
  /\ \E valid \in {ValidateLogoutResponse(m) : m \in LogoutMessages}, answers \in Cookies \union {0} :
       LET c == s.state IN
       Refuse(r, IF /\ CookieGood(i, c) /\ s.names = c
                    /\ valid /\ answers = jar[c].state THEN 303 ELSE 401)
  /\ UNCHANGED <<cfg, clock, insts, jar, replay, sessions, ended, accepted>>

(***************************************************************************)
(* csrf: "exp" is not used, the age is                                        *)
(***************************************************************************)
CheckCSRFToken(i, c) ==
  /\ jar[c].secret = insts[i].secret
  /\ cfg.expires > 0 => clock - jar[c].born <= cfg.expires
GenCSRFToken(i) == Issue(i, "session", Nobody, 0, cfg.expires)

CSRFHandler(r, i, s) ==
  /\ cfg.plugin = "csrf" /\ Ready(r)
  /\ LET good == s.at = "safe" \/ (s.session # 0 /\ s.names = s.session /\ CheckCSRFToken(i, s.session)) IN
     \/ ~good /\ Refuse(r, 401) /\ UNCHANGED jar
     \/ good /\ Refuse(r, 500) /\ UNCHANGED jar
     \/ good /\ GenCSRFToken(i)
        /\ IF s.at = "safe" THEN Refuse(r, 204) ELSE Finish(r, i, s.session, Nobody)
  /\ UNCHANGED <<cfg, clock, insts, replay, sessions, ended, accepted>>

(* A request reaches any instance that still serves.                         *)
Handler(r) ==
  /\ Ready(r)
  /\ \E i \in DOMAIN insts, s \in Shows :
    \/ CasdoorHandler(r, i, s) \/ CasdoorCallback(r, i, s) \/ DingtalkHandler(r, i, s) \/ FeishuHandler(r, i, s)
    \/ RefreshSession(r, i, s) \/ FirstAccess(r, i, s) \/ ValidateWithCAS(r, i, s)
    \/ CASLogout(r, i, s) \/ HandleIDPLogout(r, i, s)
    \/ SAMLHandler(r, i, s) \/ SAMLCallback(r, i, s) \/ SAMLLogout(r, i, s)
    \/ HandleLogoutRequest(r, i, s) \/ HandleLogoutResponse(r, i, s) \/ CSRFHandler(r, i, s)

Next ==
  \/ Tick \/ Reconfigure
  \/ \E r \in Requests :
       \/ Handler(r) \/ CasdoorToken(r) \/ ValidateTicket(r)
       \/ DingtalkAccessToken(r) \/ DingtalkUserInfo(r) \/ FeishuAccessToken(r) \/ FeishuUserInfo(r)

Spec == Init /\ [][Next]_vars

TypeOK ==
  /\ clock \in 1 .. MaxClock /\ Len(jar) <= MaxCookies /\ Len(insts) \in 1 .. MaxInstances
  /\ Len(sessions) <= Capacity
  /\ \A r \in Requests : reqs[r].inst \in 0 .. Len(insts)

(***************************************************************************)
(* Properties                                                                *)
(***************************************************************************)
(* A request passes by a cookie only while the cookie is young enough, under *)
(* a secret its own instance lists, for the user the cookie was issued to,   *)
(* and the upstream is told of that user or of none.                         *)
(* Where the values are bound to the settings, those are the same.           *)
AdmittedRight ==
  \A r \in Requests : reqs'[r] # reqs[r] /\ reqs'[r].via # 0 =>
    LET c == jar'[reqs'[r].via]
        i == insts[reqs'[r].inst] IN
    /\ c.secret = i.secret \/ c.secret \in i.old
    /\ IF cfg.plugin = "csrf" THEN cfg.expires = 0 \/ clock <= c.born + cfg.expires
       ELSE clock < c.born + SessionLife /\ c.user \in Users /\ reqs'[r].user = c.user
    /\ cfg.plugin \in {"casdoor", "saml"} => c.app = i.app
    /\ cfg.plugin \in OAuthPlugins \union {"saml"} => reqs'[r].info \in {c.user, Nobody}

(* A session comes from a login the gateway started with the same settings:  *)
(* authz-casdoor and saml-auth name in it a state issued before, for saml    *)
(* one that had not expired.                                                 *)
LoginsAnswered ==
  \A c \in Cookies :
    cfg.plugin \in {"casdoor", "saml"} /\ jar[c].kind = "session" /\ jar[c].user \in Users =>
      /\ jar[c].state \in 1 .. c - 1
      /\ jar[jar[c].state].user = Nobody
      /\ jar[jar[c].state].app = jar[c].app
      /\ cfg.plugin = "saml" => jar[c].born < jar[jar[c].state].born + StateLife

(* A state cookie completes at most one login of an instance, whenever it    *)
(* is shown again: its replay entry outlives it.                             *)
StateOnce == accepted.again = {}

(* A cas-auth session ended by a logout is not there to admit anything until *)
(* the server vouches for its ticket again, whatever refreshes follow.       *)
LogoutFinal == \A k \in DOMAIN sessions : sessions[k].key \notin ended
=============================================================================
