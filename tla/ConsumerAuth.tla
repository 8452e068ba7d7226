---------------------------- MODULE ConsumerAuth ----------------------------
(* Who a request is: the authentication plugins (key-auth, basic-auth,       *)
(* jwt-auth, hmac-auth, ldap-auth, jwe-decrypt, wolf-rbac), multi-auth that  *)
(* tries several of them on probes of one request, and the plugins that use  *)
(* the identity (consumer-restriction, acl, attach-consumer-label).          *)
(*                                                                            *)
(* A credential is a record: which scheme it is written for, whom it names   *)
(* and which of its checks fails first ("" when it proves its subject).  The *)
(* consumer lookup itself is ConsumerLookup.                                 *)
EXTENDS Integers, Sequences, FiniteSets, SequencesExt

CONSTANTS Labels,   \* registered consumer -> its labels
          Chains,   \* what a route may configure: sequences of plugin settings
          Clients,  \* requests as clients send them
          Rules,    \* consumer-restriction settings
          Acls,     \* acl settings
          Answers   \* what the wolf server may answer an access check

VARIABLES chain,    \* the configured authentication plugins; two or more is multi-auth
          orig,     \* the request as received
          cur,      \* the request as it stands
          at,       \* the child of the chain about to be tried
          who,      \* authentication state: the consumer, or None
          by,       \* the settings that authenticated it, or Nobody
          rule,     \* the access rules that applied, once chosen
          status    \* 0 while running, 200 forwarded upstream, else the refusal

vars == <<chain, orig, cur, at, who, by, rule, status>>

None == "none"
Nobody == [plugin |-> ""]
Consumers == DOMAIN Labels
Places == {"key_header", "key_query", "authorization", "jwt_query", "jwt_cookie",
           "rbac_query", "rbac_header", "rbac_cookie"}
Empty == [scheme |-> "", name |-> "", fault |-> ""]
Anonymity == Consumers \union {"", "gone"}

(* The plugins' settings, defaults filled in.  "strict" is the setting that *)
(* decides what an absent part of the request means: claims_to_verify of     *)
(* jwt-auth, validate_request_body of hmac-auth, strict of jwe-decrypt.      *)
KeyConfigs == [plugin : {"key"}, hide : BOOLEAN, anonymous : Anonymity, strict : {TRUE}]
BasicConfigs == [plugin : {"basic"}, hide : BOOLEAN, anonymous : Anonymity, strict : {TRUE}]
JwtConfigs == [plugin : {"jwt"}, hide : BOOLEAN, anonymous : Anonymity, strict : BOOLEAN]
HmacConfigs == [plugin : {"hmac"}, hide : BOOLEAN, anonymous : Anonymity, strict : BOOLEAN]
LdapConfigs == [plugin : {"ldap"}, hide : BOOLEAN, anonymous : {""}, strict : {TRUE}]
JweConfigs == [plugin : {"jwe"}, hide : {FALSE}, anonymous : {""}, strict : BOOLEAN]
WolfConfigs == [plugin : {"wolf"}, hide : {FALSE}, anonymous : {""}, strict : {TRUE}]
Settings == UNION {KeyConfigs, BasicConfigs, JwtConfigs, HmacConfigs, LdapConfigs,
                   JweConfigs, WolfConfigs}

(* multi-auth: children of the supported kinds, each with settings of its   *)
(* own that pass that kind's schema.                                         *)
MultiAuthConfigs == {ch \in Chains : Len(ch) > 1 => \A i \in 1 .. Len(ch) : ch[i] \in Settings}

(* consumer-restriction and acl settings.  An empty list is no list.        *)
RestrictionConfigs ==
  {r \in Rules : r.on \in BOOLEAN /\ r.black \subseteq Consumers /\ r.white \subseteq Consumers}
AclConfigs == {a \in Acls : a.parser \in {"", "segmented_text", "json", "table"}}

AuthConfig ==
  /\ RestrictionConfigs = Rules /\ AclConfigs = Acls
  /\ MultiAuthConfigs = Chains
  /\ \A ch \in Chains : Len(ch) = 1 => ch[1] \in Settings
  /\ \A q \in Clients : /\ DOMAIN q.creds = Places
                        /\ q.body \in {"none", "whole"}

-----------------------------------------------------------------------------
(* What a plugin returns: go on with an identity, or stop with a status.     *)
Pass(q, c) == [go |-> TRUE, who |-> c, status |-> 0, req |-> q]
Stop(q, s) == [go |-> FALSE, who |-> None, status |-> s, req |-> q]
Without(q, places) == [q EXCEPT !.creds = [p \in Places |-> IF p \in places THEN Empty ELSE @[p]]]
Hidden(s, q, places) == IF s.hide THEN Without(q, places) ELSE q

(* A scheme reads nothing from a value written for another one.              *)
Reads(cred, scheme) == cred.scheme = scheme
Registered(cred) == cred.name \in Consumers

(* anonymousConsumerResult: the configured consumer, if it is still there.   *)
Anonymous(s, q) ==
  IF s.anonymous = "" THEN Stop(q, 401)
  ELSE IF s.anonymous \in Consumers THEN Pass(q, s.anonymous) ELSE Stop(q, 401)

-----------------------------------------------------------------------------
(* key-auth: the header before the query; the location that was read is the *)
(* one that is hidden, both when the anonymous consumer stands in.           *)
KeyLocation(q) == IF q.creds["key_header"] # Empty THEN "key_header" ELSE "key_query"

KeyAuth_HidesHeader(s, q) ==
  LET place == KeyLocation(q)
      cred == q.creds[place]
  IN CASE cred = Empty -> Anonymous(s, q)
       [] cred # Empty /\ Registered(cred) -> Pass(Hidden(s, q, {"key_header"}), cred.name)
       [] OTHER -> Anonymous(s, Hidden(s, q, {"key_header", "key_query"}))

KeyAuth(s, q) ==
  LET place == KeyLocation(q)
      cred == q.creds[place]
  IN CASE cred = Empty -> Anonymous(s, q)
       [] cred # Empty /\ Registered(cred) -> Pass(Hidden(s, q, {place}), cred.name)
       [] cred # Empty /\ ~Registered(cred) /\ s.anonymous # "" ->
            Anonymous(s, Hidden(s, q, {"key_header", "key_query"}))
       [] OTHER -> Stop(q, 401)

(* parseBasicAuthorization: scheme, encoding and the colon.                  *)
BasicUser(cred) == Reads(cred, "basic")

(* basic-auth hides the header before it looks at it.                        *)
BasicAuth(s, q) ==
  LET cred == q.creds["authorization"]
      rest == Hidden(s, q, {"authorization"})
  IN IF BasicUser(cred) /\ Registered(cred) /\ cred.fault = ""
     THEN Pass(rest, cred.name)
     ELSE Anonymous(s, rest)

(* jwt-auth: header, query, cookie; hidden as soon as it is read.            *)
JwtLocation(q) ==
  CASE q.creds["authorization"] # Empty -> "authorization"
    [] q.creds["authorization"] = Empty /\ q.creds["jwt_query"] # Empty -> "jwt_query"
    [] OTHER -> "jwt_cookie"

(* verifyAPISIXTimeClaims: a token is spent at exp, not after it, and not    *)
(* usable before nbf, both with the consumer's grace period.  A claim that   *)
(* is absent (-1) does not matter unless claims_to_verify names it.          *)
TimeClaims(cred, now, leeway, required) ==
  /\ cred.exp = -1 => ~required
  /\ cred.exp # -1 => cred.exp > now - leeway
  /\ cred.nbf = -1 => ~required
  /\ cred.nbf # -1 => cred.nbf <= now + leeway

(* verifyToken: the consumer's algorithm and key, then the time claims.      *)
JwtKey(cred) == cred.fault # "key"
VerifyToken(s, cred) == cred.fault = "" /\ JwtKey(cred) /\ TimeClaims(cred, 2, 1, s.strict)
FindJwtConsumer(s, cred) == Reads(cred, "jwt") /\ Registered(cred) /\ VerifyToken(s, cred)

JwtAuth(s, q) ==
  LET place == JwtLocation(q)
      cred == q.creds[place]
      rest == Hidden(s, q, {place})
  IN IF FindJwtConsumer(s, cred)
     THEN Pass(rest, cred.name)
     ELSE Anonymous(s, rest)

(* signature.go: the parameters of the header, and the signature over the    *)
(* headers they name.                                                        *)
HmacSigned(cred) == cred.fault # "signature"

(* The clock skew, the headers that must be signed, the body's digest: a     *)
(* body is read up to the limit and put back, unless it is longer.           *)
HmacValid(s, cred, q) ==
  /\ cred.fault \in {"", "body_limit"}
  /\ s.strict => cred.fault = "" /\ q.body # "drained"

(* hmac-auth: a body over the limit is the one failure that is not a 401 and *)
(* that no anonymous consumer stands in for.                                 *)
HmacAnonymous(s, q) ==
  Anonymous(s, IF s.anonymous \in Consumers THEN Hidden(s, q, {"authorization"}) ELSE q)

HmacAuth(s, q) ==
  LET cred == q.creds["authorization"]
      drained == IF q.body = "none" THEN q ELSE [q EXCEPT !.body = "drained"]
      known == Reads(cred, "hmac") /\ Registered(cred)
  IN CASE known /\ HmacSigned(cred) /\ HmacValid(s, cred, q) ->
            Pass(Hidden(s, q, {"authorization"}), cred.name)
       [] known /\ cred.fault = "body_limit" /\ s.strict -> Stop(drained, 413)
       [] OTHER -> HmacAnonymous(s, q)

(* BodyIsolation: the plugins whose probe is given a body to read.           *)
ReadsBody(s) == s.plugin = "hmac" /\ s.strict

(* extractBasicUser, and the bind that proves the user to the directory.     *)
LdapUser(cred) == Reads(cred, "basic")
LdapBind(cred) == cred.fault = ""

(* ldap-auth: the bind, then the consumer of the DN; no anonymous consumer.  *)
LdapAuth(s, q) ==
  LET cred == q.creds["authorization"]
      rest == Hidden(s, q, {"authorization"})
  IN CASE ~LdapUser(cred) -> Stop(q, 401)
       [] LdapUser(cred) /\ LdapBind(cred) /\ Registered(cred) -> Pass(rest, cred.name)
       [] OTHER -> Stop(rest, 401)

(* parseCompactJWE and decryptJWE.                                           *)
JweParsed(cred) == Reads(cred, "jwe")
JweDecrypted(cred) == cred.fault = ""

(* jwe-decrypt: the plaintext replaces the token; without a token and not    *)
(* strict the request goes on unauthenticated.                               *)
JweDecrypt(s, q) ==
  LET cred == q.creds["authorization"]
      plain == [Empty EXCEPT !.scheme = "plaintext", !.name = cred.name]
  IN CASE cred = Empty /\ s.strict -> Stop(q, 403)
       [] cred = Empty /\ ~s.strict -> Pass(q, None)
       [] cred # Empty /\ JweParsed(cred) /\ Registered(cred) /\ JweDecrypted(cred) ->
            Pass([q EXCEPT !.creds["authorization"] = plain], cred.name)
       [] OTHER -> Stop(q, 400)

(* wolf-rbac: query, Authorization, header, cookie.                          *)
RbacLocation(q) ==
  LET filled == SelectSeq(<<"rbac_query", "authorization", "rbac_header", "rbac_cookie">>,
                          LAMBDA p : q.creds[p] # Empty)
  IN IF filled = <<>> THEN "rbac_cookie" ELSE Head(filled)

(* checkPermission: at most three attempts, retried only while the server    *)
(* answers 5xx; anything but a granted answer with a user is a refusal.      *)
CheckPermission(answers) ==
  LET settled == {i \in 1 .. 3 : answers[i] # "5xx"}
      first == answers[CHOOSE i \in settled : \A j \in settled : i <= j]
  IN IF settled = {} THEN 500
     ELSE CASE first = "granted" -> 200
            [] first = "unreachable" -> 500
            [] first = "not_json" -> 502
            [] first = "refused" -> 401
            [] OTHER -> 403        \* ok is false, or the user information is unusable

(* setUserHeaders over what validateUserInfo let through.                    *)
SetUserHeaders(q) == [q EXCEPT !.user = "wolf"]
ClearUserHeaders(q) == [q EXCEPT !.user = ""]

(* The identity headers a client sent are cleared before anything else, and  *)
(* set again only from the user the server named.                            *)
WolfRbac(s, q, answers) ==
  LET cred == q.creds[RbacLocation(q)]
      cleared == ClearUserHeaders(q)
  IN CASE ~Reads(cred, "rbac") \/ ~Registered(cred) -> Stop(cleared, 401)
       [] Reads(cred, "rbac") /\ Registered(cred) /\ CheckPermission(answers) = 200 ->
            Pass(SetUserHeaders(q), cred.name)
       [] OTHER -> Stop(cleared, CheckPermission(answers))

Authenticate(s, q, answers) ==
  CASE s.plugin = "key" -> KeyAuth(s, q)
    [] s.plugin = "basic" -> BasicAuth(s, q)
    [] s.plugin = "jwt" -> JwtAuth(s, q)
    [] s.plugin = "hmac" -> HmacAuth(s, q)
    [] s.plugin = "ldap" -> LdapAuth(s, q)
    [] s.plugin = "jwe" -> JweDecrypt(s, q)
    [] s.plugin = "wolf" -> WolfRbac(s, q, answers)

-----------------------------------------------------------------------------
(* multi-auth: succeeds.  The probe is a clone without a body, or with a tee *)
(* of it; the loser's clone is dropped and what it read is put back, the     *)
(* winner's is the request from there on.                                    *)
Probe(s, q) == IF ReadsBody(s) THEN q ELSE [q EXCEPT !.body = "none"]

(* hasAuthenticationState: going on is not enough.                           *)
Wins(result) == result.go /\ result.who # None

Restored_KeepsProbe(q, result) == [result.req EXCEPT !.body = IF q.body = "none" THEN @ ELSE "whole"]

Restored(q, result) == q

SuccessRequest(q, result) == [result.req EXCEPT !.body = q.body]

TryChild(answers) ==
  LET s == chain[at]
      result == Authenticate(s, Probe(s, cur), answers)
  IN /\ status = 0 /\ Len(chain) > 1 /\ at <= Len(chain) /\ who = None
     /\ IF Wins(result)
        THEN /\ who' = result.who /\ by' = s /\ at' = Len(chain) + 1
             /\ cur' = SuccessRequest(cur, result)
             /\ UNCHANGED status
        ELSE /\ at' = at + 1
             /\ cur' = Restored(cur, result)
             /\ status' = IF at = Len(chain) THEN 401 ELSE 0
             /\ UNCHANGED <<who, by>>
     /\ UNCHANGED <<chain, orig, rule>>

(* A single plugin works on the request itself.                              *)
RunPlugin(answers) ==
  LET s == chain[at]
      result == Authenticate(s, cur, answers)
  IN /\ status = 0 /\ Len(chain) = 1 /\ at = 1
     /\ at' = 2
     /\ cur' = result.req
     /\ who' = result.who
     /\ by' = IF result.go THEN s ELSE Nobody
     /\ status' = result.status
     /\ UNCHANGED <<chain, orig, rule>>

(* resolveConsumerBindings, AttachConsumer: the identity the upstream sees.  *)
Attach ==
  /\ status = 0 /\ at > Len(chain) /\ cur.identity # who /\ who # None
  /\ cur' = [cur EXCEPT !.identity = who]
  /\ UNCHANGED <<chain, orig, at, who, by, rule, status>>

-----------------------------------------------------------------------------
(* consumer-restriction: the blacklist, the whitelist, and the methods of a  *)
(* user who is not whitelisted and is listed.                                *)
ConsumerRestriction(r, value, method) ==
  LET listed == value \in DOMAIN r.methods
      outside == r.white # {} /\ value \notin r.white
      banned == value \notin r.white /\ listed /\ method \notin r.methods[value]
  IN CASE value = "" -> 401
       [] value # "" /\ value \in r.black -> 403
       [] OTHER -> IF outside \/ banned THEN 403 ELSE 0

(* extractValues: a list is a table; a text may hold a JSON array or words.  *)
DefaultValues(label) == IF label.form = "other" THEN {} ELSE label.values

(* extractValuesWithParser: how a label's value reads as a set of strings.   *)
ExtractValues(label, parser) ==
  CASE parser = "segmented_text" -> IF label.form \in {"words", "text"} THEN label.values ELSE {}
    [] parser = "json" -> IF label.form = "json" THEN label.values ELSE {}
    [] parser = "table" -> IF label.form = "list" THEN label.values ELSE {}
    [] OTHER -> DefaultValues(label)

(* externalUserField: a path is exact, or names what may lie in between.     *)
UserField(user, path) ==
  UNION {{[form |-> u.form, values |-> u.values]} : u \in {v \in user :
    /\ IsPrefix(path.head, v.path) /\ IsSuffix(path.tail, v.path)
    /\ IF path.deep THEN Len(v.path) >= Len(path.head) + Len(path.tail)
       ELSE Len(v.path) = Len(path.head) + Len(path.tail)}}

(* containsLabelWithParser over what is known of the caller.                 *)
HasLabel(want, labels, parser) ==
  \E l \in labels : ExtractValues(l, parser) \intersect want # {}

(* acl: a consumer's labels or, without one, the external user's field; the  *)
(* denied labels before the allowed ones.                                    *)
Acl(a, c, user) ==
  LET labels == IF c # None THEN Labels[c] ELSE UserField(user, a.field)
      parser == IF c # None THEN "" ELSE a.parser
  IN CASE c = None /\ user = {} -> 401
       [] a.deny # {} /\ HasLabel(a.deny, labels, parser) -> 403
       [] OTHER -> IF a.allow # {} /\ ~HasLabel(a.allow, labels, parser) THEN 403 ELSE 0

(* attach-consumer-label: the configured header says what the label says, or *)
(* nothing; without a consumer the client's header stays.                    *)
AttachLabels(q, c) ==
  IF c = None \/ Labels[c] = {} THEN q
  ELSE [q EXCEPT !.label = CHOOSE l \in Labels[c] : TRUE]

Ready == status = 0 /\ at > Len(chain) /\ (who # None => cur.identity = who)

(* The access plugins, consumer-restriction before acl, and the upstream.    *)
Authorize ==
  /\ Ready
  /\ \E r \in Rules, a \in Acls :
       LET value == IF who = None THEN "" ELSE who
           first == IF r.on THEN ConsumerRestriction(r, value, cur.method) ELSE 0
           second == IF a.on THEN Acl(a, who, cur.external) ELSE 0
       IN /\ rule' = [restriction |-> r, acl |-> a]
          /\ status' = CASE first # 0 -> first
                         [] first = 0 /\ second # 0 -> second
                         [] OTHER -> 200
          /\ cur' = IF first = 0 /\ second = 0 THEN AttachLabels(cur, who) ELSE cur
  /\ UNCHANGED <<chain, orig, at, who, by>>

-----------------------------------------------------------------------------
Init ==
  /\ chain \in Chains /\ orig \in Clients
  /\ cur = orig /\ at = 1 /\ who = None /\ by = Nobody /\ rule = None /\ status = 0

Next ==
  \/ \E answers \in Answers : TryChild(answers) \/ RunPlugin(answers)
  \/ Attach \/ Authorize

Spec == Init /\ [][Next]_vars

-----------------------------------------------------------------------------
(* Which credential of the original request proves a consumer to a plugin.   *)
Proves(s, q, c) ==
  \E p \in Places :
    LET cred == q.creds[p]
    IN /\ cred.name = c /\ c \in Consumers
       /\ cred.fault = "" \/ (cred.fault = "body_limit" /\ ~s.strict)
       /\ CASE s.plugin = "key" -> p \in {"key_header", "key_query"}
            [] s.plugin \in {"basic", "ldap"} -> p = "authorization" /\ cred.scheme = "basic"
            [] s.plugin = "jwt" -> cred.scheme = "jwt" /\ (cred.exp # -1 => cred.exp + 1 > 2)
            [] s.plugin = "hmac" -> p = "authorization" /\ cred.scheme = "hmac"
            [] s.plugin = "jwe" -> p = "authorization" /\ cred.scheme = "jwe"
            [] s.plugin = "wolf" -> cred.scheme = "rbac"

(* The locations a plugin may take its credential from, in its order.        *)
Locations(s) ==
  CASE s.plugin = "key" -> <<"key_header", "key_query">>
    [] s.plugin = "jwt" -> <<"authorization", "jwt_query", "jwt_cookie">>
    [] s.plugin = "wolf" -> <<>>
    [] OTHER -> <<"authorization">>

Read(s, q) ==
  LET filled == SelectSeq(Locations(s), LAMBDA p : q.creds[p] # Empty)
  IN IF filled = <<>> THEN {} ELSE {Head(filled)}

(* A request that reaches the upstream with an identity has it from a        *)
(* credential that proves it to the plugin that accepted it, or is that      *)
(* plugin's anonymous consumer; the upstream is told that consumer and no    *)
(* other; a hidden credential does not reach it; nothing else of the client's *)
(* request is lost, neither by the winner nor by the probes that lost; wolf's *)
(* user headers are wolf's; and no rule denies the consumer.                 *)
ForwardedRight ==
  status = 200 =>
    /\ who # None =>
         /\ Proves(by, orig, who) \/ by.anonymous = who
         /\ cur.identity = who
         /\ rule.restriction.on =>
              /\ who \notin rule.restriction.black
              /\ rule.restriction.white # {} => who \in rule.restriction.white
         /\ rule.acl.on =>
              \A l \in Labels[who] : ExtractValues(l, "") \intersect rule.acl.deny = {}
         /\ by.hide => \A p \in Read(by, orig) : cur.creds[p] # orig.creds[p]
         /\ \A p \in Places \ {Locations(by)[i] : i \in 1 .. Len(Locations(by))} :
              cur.creds[p] = orig.creds[p]
    /\ cur.body = orig.body
    /\ by.plugin = "wolf" => cur.user = "wolf"

(* A request is refused by multi-auth only when each of its children refuses *)
(* the request as the client sent it: no child's verdict depends on the ones *)
(* tried before it.                                                          *)
RefusedRight ==
  status = 401 /\ Len(chain) > 1 /\ by = Nobody =>
    \A i \in 1 .. Len(chain) :
      chain[i].plugin # "wolf" => ~Wins(Authenticate(chain[i], orig, <<"5xx", "5xx", "5xx">>))
=============================================================================
