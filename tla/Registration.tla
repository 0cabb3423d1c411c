----------------------------- MODULE Registration -----------------------------
(***************************************************************************)
(* What an agent registers: agent.New completes the configuration, loads   *)
(* and normalises the gateway manifest, makes the service node of it and   *)
(* has NewController validate the node (src/agent/agent.go, defaults.go,   *)
(* manifest.go, service_node.go).  The node is then the payload of every   *)
(* register, and names the instance in every drain and deregister.  A      *)
(* service is deployed again with a manifest that was generated again:     *)
(* the same capabilities, in another order or another layout.              *)
(*                                                                         *)
(* A text is a string that is compared, trimmed and ordered by functions   *)
(* given as constants; run dates and the wording of errors are left out.   *)
(* Def_What, before Def, is Def with a plausible bug; nothing uses it.     *)
(***************************************************************************)
EXTENDS Naturals, SequencesExt

CONSTANTS
    Lexicon,     \* sequence: all texts, in lexical order
    TrimSpace, TrimSlashes, ToUpper, \* functions from texts to texts
    Absolute,    \* texts that start with "/"
    Plain,       \* texts without white space, query or fragment
    Belongs,     \* set of <<method, service>>: the prefix is "/service/"
    MethodForm,  \* of those, the methods "/service/MethodName"
    Pad,         \* function: the text with white space around it
    Respell,     \* function: an HTTP method in another case
    GivenConfigs, Files, ServiceOptionses, \* what New is called with
    MaxDeployments \* bound: the times the service is deployed

Texts == ToSet(Lexicon)

SidecarAgentConfigs ==
    [base_url : Texts, watch_url : Texts, request_timeout : Texts,
     reconnect_interval : Texts, gateway_manifest_path : Texts]

GatewayServices == [name : Texts, methods : Seq(Texts)]
HTTPRoutes == [http_method : Texts, path : Texts, full_method : Texts,
               upstream_path : Texts, strip_prefix : BOOLEAN]
GatewayManifests ==
    [readable : BOOLEAN, schema : BOOLEAN, services : Seq(GatewayServices),
     routes : Seq(HTTPRoutes)]

(* missing: the required fields that are blank. *)
Required == {"app.id", "app.instance_id", "app.name", "app.env", "app.version",
             "kernel.language", "kernel.version", "service.name",
             "service.namespace", "protocol", "dns"}
NoOptions == [instance |-> ""]
OptionsOf(instances) ==
    [instance : instances, missing : SUBSET Required, port : Nat, weight : Nat]

ASSUME RegistrationAssumption ==
    /\ MaxDeployments \in Nat \ {0}
    /\ Lexicon \in Seq(Texts) /\ IsInjective(Lexicon) /\ "" \in Texts
    /\ {TrimSpace, TrimSlashes, ToUpper, Pad, Respell} \subseteq [Texts -> Texts]
    /\ \A t \in Texts : /\ TrimSpace[TrimSpace[t]] = TrimSpace[t]
                        /\ TrimSlashes[TrimSlashes[t]] = TrimSlashes[t]
                        /\ ToUpper[ToUpper[t]] = ToUpper[t]
                        /\ TrimSpace[ToUpper[t]] = ToUpper[TrimSpace[t]]
                        /\ TrimSpace[Pad[t]] = TrimSpace[t]
                        /\ ToUpper[Respell[t]] = ToUpper[t]
    /\ TrimSpace[""] = "" /\ Absolute \subseteq Texts \ {""}
    /\ Belongs \subseteq Absolute \X (Texts \ {""}) /\ MethodForm \subseteq Belongs
    /\ GivenConfigs \subseteq SidecarAgentConfigs
    /\ Files \subseteq GatewayManifests
    /\ \A f \in Files : \A r \in ToSet(f.routes) :
          ToUpper[TrimSpace[r.http_method]] \in Plain
    /\ \A o \in ServiceOptionses \ {NoOptions} : o \in OptionsOf({o.instance})

VARIABLES
    given,     \* the SidecarAgentConfig that New is called with
    file,      \* the manifest file
    options,   \* the ServiceOptions of the application
    pc,        \* start, load, node, controller, run, failed
    config, manifest, node, \* the locals of New
    err,       \* what New failed with
    requests,  \* history: requests sent, by operation
    deployments, \* number of deployments, up to MaxDeployments
    before     \* history: what the previous deployment registered

vars == <<given, file, options, pc, config, manifest, node, err, requests,
          deployments, before>>

NoConfig == [base_url |-> ""]
NoManifest == [services |-> <<>>, routes |-> <<>>]
NoNode   == [proto_count |-> 0]
Nothing  == [result |-> "none"]

(* Type invariant. *)
TypeOK ==
    /\ given \in GivenConfigs /\ pc \in {"start", "load", "node", "controller", "run", "failed"}
    /\ manifest.routes # <<>> => manifest.services # <<>>
    /\ pc \in {"start", "load"} => node = NoNode
    /\ pc = "failed" <=> err # "none"
    /\ requests # {} => pc = "run"
    /\ deployments \in 1..MaxDeployments

Init ==
    /\ given \in GivenConfigs /\ file \in Files /\ options \in ServiceOptionses
    /\ pc = "start" /\ config = NoConfig /\ manifest = NoManifest
    /\ node = NoNode /\ err = "none" /\ requests = {}
    /\ deployments = 1 /\ before = Nothing

-----------------------------------------------------------------------------
(* Defaults.                                                               *)

DefaultAdminBaseURL == "http://127.0.0.1:15010"
DefaultWatchPath == "/watch"

DefaultSidecarAgentConfig(baseURL) ==
    LET clean == TrimSlashes[TrimSpace[baseURL]]
        base  == IF clean = "" THEN DefaultAdminBaseURL ELSE clean
    IN [base_url |-> base, watch_url |-> base \o DefaultWatchPath,
        request_timeout |-> "3s", reconnect_interval |-> "1s",
        gateway_manifest_path |-> "gateway.manifest.json"]

normalizeSidecarAgentConfig_KeepsSlash(c) ==
    LET defaults == DefaultSidecarAgentConfig(c.base_url)
        base == IF TrimSpace[c.base_url] = "" THEN defaults.base_url
                ELSE TrimSpace[c.base_url]
    IN [defaults EXCEPT !.base_url = base, !.watch_url = base \o DefaultWatchPath]

normalizeSidecarAgentConfig(c) ==
    LET defaults == DefaultSidecarAgentConfig(c.base_url)
        base == IF TrimSpace[c.base_url] = "" THEN defaults.base_url
                ELSE TrimSlashes[TrimSpace[c.base_url]]
        Given(field, otherwise) == IF TrimSpace[c[field]] = "" THEN otherwise
                                   ELSE TrimSpace[c[field]]
    IN [base_url |-> base,
        watch_url |-> Given("watch_url", base \o DefaultWatchPath),
        request_timeout |-> Given("request_timeout", defaults.request_timeout),
        reconnect_interval |->
            Given("reconnect_interval", defaults.reconnect_interval),
        gateway_manifest_path |->
            Given("gateway_manifest_path", defaults.gateway_manifest_path)]

(* The defaults are trimmed, and "/watch" after a trimmed address gives a  *)
(* trimmed address.                                                        *)
ASSUME DefaultsAssumption ==
    /\ {DefaultAdminBaseURL, "3s", "1s", "gateway.manifest.json"} \subseteq Texts
    /\ \A t \in {DefaultAdminBaseURL, "3s", "1s", "gateway.manifest.json"} :
          TrimSpace[t] = t
    /\ TrimSlashes[""] = ""
    /\ TrimSlashes[DefaultAdminBaseURL] = DefaultAdminBaseURL
    /\ \A c \in GivenConfigs :
          LET base == DefaultSidecarAgentConfig(c.base_url).base_url
          IN /\ base \o DefaultWatchPath \in Texts \ {""}
             /\ TrimSpace[base] = base =>
                   TrimSpace[base \o DefaultWatchPath] = base \o DefaultWatchPath

-----------------------------------------------------------------------------
(* The manifest.                                                           *)

Rank == [t \in Texts |-> CHOOSE i \in DOMAIN Lexicon : Lexicon[i] = t]
Before(s, t) == Rank[s] < Rank[t]

(* The elements of S as sort orders them.  S is the set of what is sorted: *)
(* the keys are distinct, or the manifest has been rejected before.        *)
InOrder(S, order) ==
    CHOOSE s \in [1..Cardinality(S) -> S] :
       \A i, j \in DOMAIN s : i < j => <<s[i], s[j]>> \in order
Sorted(S) == InOrder(S, {p \in S \X S : Before(p[1], p[2])})

normalizeHTTPRoute_CaseKept(r) ==
    [http_method |-> TrimSpace[r.http_method], path |-> TrimSpace[r.path],
     full_method |-> TrimSpace[r.full_method],
     upstream_path |-> TrimSpace[r.upstream_path], strip_prefix |-> r.strip_prefix]

normalizeHTTPRoute(r) ==
    [http_method |-> ToUpper[TrimSpace[r.http_method]],
     path |-> TrimSpace[r.path],
     full_method |-> TrimSpace[r.full_method],
     upstream_path |-> TrimSpace[r.upstream_path],
     strip_prefix |-> r.strip_prefix]

(* The checks of normalizeHTTPRoute, on the normalised route. *)
WellFormed(route) ==
    /\ route.http_method # "" /\ route.path \in Absolute
    /\ route.full_method # "" => /\ route.full_method \in Absolute
                                 /\ route.upstream_path = ""
                                 /\ ~route.strip_prefix
    /\ route.upstream_path # "" => /\ route.upstream_path \in Absolute \cap Plain
                                   /\ ~route.strip_prefix

(* The method, a space and the path: a pair, since a method of HTTP has no *)
(* white space, which is assumed of the files and not checked by the code. *)
(* No two routes have one key, so that the order ends with it.             *)
RouteKey(route) == <<route.http_method, route.path>>
Transcoded(route) == route.full_method # ""
RouteBefore(r, s) ==
    \/ Before(r.http_method, s.http_method)
    \/ r.http_method = s.http_method /\ Before(r.path, s.path)

SortedRoutes(S) == InOrder(S, {p \in S \X S : RouteBefore(p[1], p[2])})

(* One turn of the manifest's loop over its routes. *)
AddRoute(methods, loop, r) ==
    LET route == normalizeHTTPRoute(r)
    IN [ok |-> /\ loop.ok /\ WellFormed(route)
               /\ Transcoded(route) => route.full_method \in methods
               /\ \A q \in ToSet(loop.routes) : RouteKey(q) # RouteKey(route),
        routes |-> Append(loop.routes, route)]

(* The loop after each of its turns. *)
RouteLoop(methods, routes) ==
    LET after[i \in 0..Len(routes)] ==
          IF i = 0 THEN [ok |-> TRUE, routes |-> <<>>]
          ELSE AddRoute(methods, after[i-1], routes[i])
    IN after

CheckRoutes_Mixed(methods, routes) == RouteLoop(methods, routes)[Len(routes)]

CheckRoutes(methods, routes) ==
    LET end == RouteLoop(methods, routes)[Len(routes)]
    IN [ok |-> end.ok /\ \A r, s \in ToSet(end.routes) :
                             Transcoded(r) <=> Transcoded(s),
        routes |-> end.routes]

(* One turn of the loop over the services. *)
TrimmedMethods(s) == {TrimSpace[t] : t \in ToSet(s.methods)}
normalizeService(s) ==
    [name |-> TrimSpace[s.name], methods |-> Sorted(TrimmedMethods(s))]

AddService_Merges(loop, s) ==
    LET name == TrimSpace[s.name]
    IN IF \E q \in ToSet(loop.services) : q.name = name THEN loop
       ELSE [ok |-> /\ loop.ok /\ name # "" /\ s.methods # <<>>
                    /\ TrimmedMethods(s) \X {name} \subseteq Belongs,
             methods |-> loop.methods \cup TrimmedMethods(s),
             services |-> Append(loop.services, normalizeService(s))]

AddService(loop, s) ==
    LET name == TrimSpace[s.name]
    IN [ok |-> /\ loop.ok /\ name # "" /\ s.methods # <<>>
               /\ \A q \in ToSet(loop.services) : q.name # name
               /\ TrimmedMethods(s) \X {name} \subseteq Belongs,
        methods |-> loop.methods \cup TrimmedMethods(s),
        services |-> Append(loop.services, normalizeService(s))]

(* The loop after each of its turns. *)
ServiceLoop(m) ==
    LET after[i \in 0..Len(m.services)] ==
          IF i = 0
          THEN [ok |-> m.schema /\ m.services # <<>>, methods |-> {}, services |-> <<>>]
          ELSE AddService(after[i-1], m.services[i])
    IN after

ServiceBefore(s, t) == Before(s.name, t.name)
SortedServices(S) == InOrder(S, {p \in S \X S : ServiceBefore(p[1], p[2])})

NormalizeAndValidate_Unsorted(m) ==
    LET services == ServiceLoop(m)[Len(m.services)]
        routes == CheckRoutes(services.methods, m.routes)
    IN IF services.ok /\ routes.ok
       THEN [ok |-> TRUE, services |-> services.services, routes |-> routes.routes]
       ELSE [ok |-> FALSE, services |-> <<>>, routes |-> <<>>]

NormalizeAndValidate(m) ==
    LET services == ServiceLoop(m)[Len(m.services)]
        routes == CheckRoutes(services.methods, m.routes)
    IN IF services.ok /\ routes.ok
       THEN [ok |-> TRUE, services |-> SortedServices(ToSet(services.services)),
             routes |-> SortedRoutes(ToSet(routes.routes))]
       ELSE [ok |-> FALSE, services |-> <<>>, routes |-> <<>>]

ServiceCount(m) == Len(m.services)
HTTPRoutesCopy_Bare(m) ==
    [i \in DOMAIN m.routes |-> [m.routes[i] EXCEPT !.upstream_path = ""]]
HTTPRoutesCopy(m) == m.routes

MethodPaths_FirstService(m) == Head(m.services).methods

MethodPaths(m) ==
    Sorted((UNION {TrimmedMethods(s) : s \in ToSet(m.services)}) \ {""})

-----------------------------------------------------------------------------
(* The service node.                                                       *)

NewServiceNode(opts, m) ==
    [options |-> opts, proto_count |-> ServiceCount(m),
     methods |-> MethodPaths(m), http_routes |-> HTTPRoutesCopy(m)]

(* What the node's methods see of its options: its own copy. *)
NodeOptions_Shared(n) == options
NodeOptions(n) == n.options

(* The node has a loop over the routes of its own.  One turn of it, one    *)
(* that would take no proxy route, and the loop after each of its turns.   *)
AddNodeRoute_NoProxy(methods, loop, r) ==
    LET route == normalizeHTTPRoute(r)
    IN [ok |-> /\ loop.ok /\ WellFormed(route) /\ route.full_method \in methods
               /\ \A q \in ToSet(loop.routes) : RouteKey(q) # RouteKey(route),
        routes |-> Append(loop.routes, route)]

AddNodeRoute(methods, loop, r) ==
    LET route == normalizeHTTPRoute(r)
    IN [ok |-> /\ loop.ok /\ WellFormed(route)
               /\ Transcoded(route) => route.full_method \in methods
               /\ \A q \in ToSet(loop.routes) : RouteKey(q) # RouteKey(route),
        routes |-> Append(loop.routes, route)]

NodeRouteLoop(methods, routes) ==
    LET after[i \in 0..Len(routes)] ==
          IF i = 0 THEN [ok |-> TRUE, routes |-> <<>>]
          ELSE AddNodeRoute(methods, after[i-1], routes[i])
    IN after

NodeRoutes(n) ==
    LET end == NodeRouteLoop(TrimmedMethods(n), n.http_routes)[Len(n.http_routes)]
    IN [ok |-> end.ok /\ \A r, s \in ToSet(end.routes) :
                             Transcoded(r) <=> Transcoded(s),
        routes |-> end.routes]

CapabilitiesOK(n) ==
    /\ n.methods # <<>>
    /\ \A t \in ToSet(n.methods) : TrimSpace[t] \in Absolute
    /\ NodeRoutes(n).ok

(* The errors that Validate may return; the required fields are looked     *)
(* through in the order of a Go map.                                       *)
Validate(n) ==
    IF n.options.missing # {} THEN n.options.missing
    ELSE IF n.options.port = 0 \/ n.options.port > 65535 THEN {"server_port"}
    ELSE IF n.options.weight = 0 THEN {"weight"}
    ELSE IF ~CapabilitiesOK(n) THEN {"capabilities"}
    ELSE {}

-----------------------------------------------------------------------------
(* New.                                                                    *)

Starts ==
    /\ pc = "start"
    /\ IF options = NoOptions
       THEN /\ pc' = "failed" /\ err' = "options"
            /\ UNCHANGED config
       ELSE /\ pc' = "load" /\ config' = normalizeSidecarAgentConfig(given)
            /\ UNCHANGED err
    /\ UNCHANGED <<given, file, options, manifest, node, requests, deployments,
                   before>>

LoadGatewayManifest_GoesOn ==
    /\ pc = "load" /\ pc' = "node"
    /\ LET m == NormalizeAndValidate(file)
       IN /\ err' = IF file.readable /\ m.ok THEN err ELSE "manifest"
          /\ manifest' = [services |-> m.services, routes |-> m.routes]
    /\ UNCHANGED <<given, file, options, config, node, requests, deployments,
                   before>>

LoadGatewayManifest ==
    /\ pc = "load"
    /\ LET m == NormalizeAndValidate(file)
       IN IF file.readable /\ m.ok
          THEN /\ pc' = "node" /\ UNCHANGED err
               /\ manifest' = [services |-> m.services, routes |-> m.routes]
          ELSE pc' = "failed" /\ err' = "manifest" /\ UNCHANGED manifest
    /\ UNCHANGED <<given, file, options, config, node, requests, deployments,
                   before>>

BuildsNode ==
    /\ pc = "node"
    /\ node' = NewServiceNode(options, manifest)
    /\ pc' = "controller"
    /\ UNCHANGED <<given, file, options, config, manifest, err, requests,
                   deployments, before>>

NewController ==
    /\ pc = "controller"
    /\ \/ /\ Validate(node) = {} /\ pc' = "run"
          /\ node' = [node EXCEPT !.http_routes = NodeRoutes(node).routes]
          /\ UNCHANGED err
       \/ pc' = "failed" /\ err' \in Validate(node) /\ UNCHANGED node
    /\ UNCHANGED <<given, file, options, config, manifest, requests,
                   deployments, before>>

-----------------------------------------------------------------------------
(* The running agent and the application.                                  *)

(* What BuildDrainRequest and BuildDeregisterRequest name, and what is     *)
(* written of the options when the node itself is sent.                    *)
Named(n) == NodeOptions(n).instance

Sends(op) ==
    /\ pc = "run"
    /\ requests' = requests \cup {[op |-> op, instance |-> Named(node)]}
    /\ UNCHANGED <<given, file, options, pc, config, manifest, node, err,
                   deployments, before>>

Registers   == Sends("register")
Drains      == Sends("drain")
Deregisters == Sends("deregister")

(* The application uses its ServiceOptions again, for another instance. *)
OptionsChange ==
    /\ pc = "run" /\ options.instance # "other"
    /\ options' = [options EXCEPT !.instance = "other"]
    /\ UNCHANGED <<given, file, pc, config, manifest, node, err, requests,
                   deployments, before>>

Outcome == IF node = NoNode THEN [result |-> "rejected"]
           ELSE [result |-> "node", count |-> node.proto_count,
                 methods |-> node.methods, routes |-> node.http_routes]

(* The same manifest as a generator may write it another time: services,   *)
(* methods and routes in another order, a method twice, other white space  *)
(* and letters of another case.                                            *)
RelaidService(s) ==
    [name |-> Pad[s.name],
     methods |-> [i \in DOMAIN s.methods |-> Pad[s.methods[i]]] \o Reverse(s.methods)]
RelaidRoute(r) == [r EXCEPT !.path = Pad[@], !.http_method = Respell[@]]
Relaid(f) ==
    [f EXCEPT !.services = [i \in DOMAIN @ |-> RelaidService(@[i])],
              !.routes   = [i \in DOMAIN @ |-> RelaidRoute(@[i])]]
Regenerated(f) ==
    {[g EXCEPT !.services = Reverse(@)] : g \in {f, Relaid(f)}}
    \cup {[g EXCEPT !.routes = Reverse(@)] : g \in {f, Relaid(f)}}

Redeploys ==
    /\ pc \in {"run", "failed"} /\ deployments < MaxDeployments
    /\ file' \in Regenerated(file)
    /\ before' = Outcome
    /\ pc' = "start" /\ config' = NoConfig /\ manifest' = NoManifest
    /\ node' = NoNode /\ err' = "none" /\ requests' = {}
    /\ deployments' = deployments + 1
    /\ UNCHANGED <<given, options>>

Next == \/ Starts \/ LoadGatewayManifest \/ BuildsNode \/ NewController
        \/ Registers \/ Drains \/ Deregisters \/ OptionsChange \/ Redeploys

Spec == Init /\ [][Next]_vars

-----------------------------------------------------------------------------
(* Properties.                                                             *)

MethodsOf(f) == UNION {TrimmedMethods(s) : s \in ToSet(f.services)}
Request(r) == <<ToUpper[TrimSpace[r.http_method]], TrimSpace[r.path]>>
Transcodes(r) == TrimSpace[r.full_method] # ""

(* The registration contract, of the manifest as a whole: services have    *)
(* distinct names and methods of the form "/service/MethodName", no two    *)
(* routes take the same HTTP request, a route of gRPC transcoding has a    *)
(* declared method and nothing of a proxy route, and the manifest has      *)
(* routes of one kind.  The form (manifest.go:136) has an exception: the   *)
(* code looks at the prefix alone, and takes a method whose rest is empty  *)
(* or no name, such as "/auth/", for one of the service.                   *)
PrefixAlone(t, name) == <<t, name>> \in Belongs \ MethodForm
ServiceContract(s) ==
    LET name == TrimSpace[s.name]
    IN /\ name # "" /\ s.methods # <<>>
       /\ \A t \in TrimmedMethods(s) : <<t, name>> \in MethodForm \/ PrefixAlone(t, name)
RouteContract(f, r) ==
    LET upstream == TrimSpace[r.upstream_path]
    IN /\ Request(r)[1] # "" /\ Request(r)[2] \in Absolute
       /\ Transcodes(r) => TrimSpace[r.full_method] \in MethodsOf(f)
       /\ ~(Transcodes(r) /\ (upstream # "" \/ r.strip_prefix))
       /\ ~(upstream # "" /\ r.strip_prefix)
       /\ upstream \in {""} \cup (Absolute \cap Plain)
Contract(f) ==
    /\ f.schema /\ f.services # <<>>
    /\ \A s \in ToSet(f.services) : ServiceContract(s)
    /\ \A i, j \in DOMAIN f.services :
          TrimSpace[f.services[i].name] = TrimSpace[f.services[j].name] => i = j
    /\ \A r \in ToSet(f.routes) : RouteContract(f, r)
    /\ \A i, j \in DOMAIN f.routes : Request(f.routes[i]) = Request(f.routes[j]) => i = j
    /\ \A r, s \in ToSet(f.routes) : Transcodes(r) = Transcodes(s)

(* New rejects a manifest exactly when it breaks the contract, with the    *)
(* exception PrefixAlone: the loops of NormalizeAndValidate, which look at *)
(* one entry and at the ones before it, decide what is said of the whole   *)
(* (manifest.go:92-204).                                                   *)
AcceptsTheContract ==
    /\ node # NoNode => file.readable /\ Contract(file)
    /\ err = "manifest" => ~(file.readable /\ Contract(file))

(* The two validators agree: once a manifest is accepted, NewController    *)
(* finds nothing wrong with the methods and routes made of it, and fails   *)
(* for the application's own options only (service_node.go:149-188).       *)
AcceptedIsRegistrable == err # "capabilities"

(* The order and the layout of a manifest do not matter: a service that is *)
(* deployed with a regenerated manifest registers what it registered       *)
(* before, or is rejected as before (manifest.go:206, 226).                *)
SameContentSameRegistration ==
    before # Nothing /\ (node # NoNode \/ err = "manifest") => Outcome = before

(* What the sidecar is given is the manifest, and it resolves: no two      *)
(* routes of the payload take the same HTTP request however its method is  *)
(* spelled, a transcoding route calls a method of the payload, routes are  *)
(* of one kind, and every service, method and route of the manifest is     *)
(* there (COVERAGE.md:58), each method once and each route with what it    *)
(* leads to.                                                               *)
Leads(r) == <<Request(r), TrimSpace[r.full_method], TrimSpace[r.upstream_path],
              r.strip_prefix>>
RoutesResolve ==
    /\ \A i, j \in DOMAIN node.http_routes :
          Request(node.http_routes[i]) = Request(node.http_routes[j]) => i = j
    /\ \A r, s \in ToSet(node.http_routes) :
          /\ Transcodes(r) => r.full_method \in ToSet(node.methods)
          /\ Transcodes(r) = Transcodes(s)
NothingLost ==
    /\ ToSet(node.methods) = MethodsOf(file) /\ IsInjective(node.methods)
    /\ node.proto_count = Len(file.services)
    /\ Len(node.http_routes) = Len(file.routes)
    /\ {Leads(r) : r \in ToSet(node.http_routes)} = {Leads(r) : r \in ToSet(file.routes)}
RegistersTheManifest == pc = "run" => RoutesResolve /\ NothingLost

(* One agent is one instance: the instance that it drains and deregisters  *)
(* is the one it registers, also when the application goes on to use its   *)
(* options for another one (service_node.go:81-82).                        *)
OneInstance == \A r, s \in requests : r.instance = s.instance

(* The defaults are in two functions, and they agree: where nothing is     *)
(* given, New runs with what DefaultSidecarAgentConfig says, and a default *)
(* configuration comes through New unchanged.  There are two exceptions: a *)
(* base URL of slashes alone is no address for the one and an empty one    *)
(* for the other, and white space before the last slashes is trimmed the   *)
(* second time only (defaults.go:7, 36).                                   *)
DefaultsAgree ==
    config # NoConfig =>
      LET default == DefaultSidecarAgentConfig(given.base_url)
          trimmed == TrimSpace[given.base_url]
      IN /\ TrimSpace[default.base_url] = default.base_url =>
               normalizeSidecarAgentConfig(default) = default
         /\ trimmed = "" \/ TrimSlashes[trimmed] # "" =>
               \A field \in DOMAIN given :
                  \/ config[field] = default[field]
                  \/ TrimSpace[given[field]] # "" /\ field # "base_url"
=============================================================================
