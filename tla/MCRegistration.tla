--------------------------- MODULE MCRegistration ---------------------------
(* Two services of at most three methods, and up to two routes: proxied or *)
(* transcoded, well formed and not, in conflict and not.                   *)
EXTENDS Registration

MCLexicon == <<
    "", " ", " /auth/Login ", " /hook ", " /in ", " /login ", " GET ",
    " auth ", " http://a/ ", " m.json ", " user ", "/", "/auth/",
    "/auth/Login", "/auth/Logout", "/hook", "/in", "/in q", "/login",
    "/user/Get", "1s", "3s", "9s", "GET", "POST", "auth", "auth/Login",
    "gateway.manifest.json", "get", "hook", "http://127.0.0.1:15010",
    "http://127.0.0.1:15010/watch", "http://a", "http://a/",
    "http://a/ ", "http://a/ /", "http://a/ /watch", "http://a/watch", "http://w", "m.json", "user">>

MCTrimSpace == [t \in ToSet(MCLexicon) |->
    CASE t = " " -> ""                   [] t = " /auth/Login " -> "/auth/Login"
      [] t = " /hook " -> "/hook"        [] t = " /in " -> "/in"
      [] t = " /login " -> "/login"      [] t = " GET " -> "GET"
      [] t = " auth " -> "auth"          [] t = " http://a/ " -> "http://a/"
      [] t = " user " -> "user"          [] t = " m.json " -> "m.json"
      [] t = "http://a/ " -> "http://a/"
      [] OTHER -> t]
MCTrimSlashes == [t \in ToSet(MCLexicon) |->
    CASE t = "/" -> "" [] t = "http://a/" -> "http://a"
      [] t = "http://a/ /" -> "http://a/ " [] OTHER -> t]
MCPad == [t \in ToSet(MCLexicon) |->
    CASE t = "/auth/Login" -> " /auth/Login " [] t = "/hook" -> " /hook "
      [] t = "/login" -> " /login "           [] t = "auth" -> " auth "
      [] t = "user" -> " user "               [] OTHER -> t]
MCToUpper == [t \in ToSet(MCLexicon) |-> IF t = "get" THEN "GET" ELSE t]
MCRespell == [t \in ToSet(MCLexicon) |-> IF t = "GET" THEN "get" ELSE t]

MCAbsolute == {"/", "/auth/", "/auth/Login", "/auth/Logout", "/hook", "/in", "/in q",
               "/login", "/user/Get"}
MCPlain == ToSet(MCLexicon) \
    {" ", " /auth/Login ", " /hook ", " /in ", " /login ", " GET ", " auth ",
     " http://a/ ", " m.json ", " user ", "/in q", "http://a/ ", "http://a/ /",
     "http://a/ /watch"}
MCBelongs == ({"/auth/", "/auth/Login", "/auth/Logout"} \X {"auth"})
             \cup {<<"/user/Get", "user">>}
MCMethodForm == MCBelongs \ {<<"/auth/", "auth">>}

Config(base, watch, timeout, path) ==
    [base_url |-> base, watch_url |-> watch, request_timeout |-> timeout,
     reconnect_interval |-> "", gateway_manifest_path |-> path]
MCConfigs == {Config("", "", "", ""), Config(" http://a/ ", "", "9s", " m.json "),
              Config("/", "", "", ""), Config("http://a/ /", "http://w", "", "")}

Options(missing, port, weight) ==
    [instance |-> "first", missing |-> missing, port |-> port, weight |-> weight]
MCOptions == {NoOptions, Options({}, 65535, 1), Options({"app.id", "protocol"}, 0, 1),
              Options({}, 65536, 1), Options({}, 1, 0)}

Service(name, methods) == [name |-> name, methods |-> methods]
MCServices ==
    {Service("auth", <<"/auth/Logout", "/auth/Login">>),
     Service(" auth ", <<"/auth/Login", " /auth/Login ">>),
     Service("auth", <<"/user/Get">>), Service("auth", <<"auth/Login">>),
     Service("auth", <<"/auth/">>), Service("auth", <<>>),
     Service(" ", <<"/auth/Login">>), Service("user", <<"/user/Get">>)}

Route(method, path, full, upstream, strip) ==
    [http_method |-> method, path |-> path, full_method |-> full,
     upstream_path |-> upstream, strip_prefix |-> strip]
MCRoutes ==
    {Route("GET", "/login", " /auth/Login ", "", FALSE),
     Route("get", " /login ", "/auth/Logout", "", FALSE),
     Route("POST", "/login", "/user/Get", "", FALSE),
     Route("GET", "/hook", "", " /in ", FALSE), Route("GET", "/hook", "", "", TRUE),
     Route("POST", "/hook", " ", "", FALSE),
     Route("GET", "/hook", "", "/in", TRUE), Route("GET", "/hook", "", "/in q", FALSE),
     Route("GET", "/login", "/auth/Login", "/in", FALSE),
     Route("GET", "hook", "", "", FALSE), Route("GET", "/login", "auth/Login", "", FALSE),
     Route("", "/hook", "", "", FALSE)}

Manifest(services, routes) ==
    [readable |-> TRUE, schema |-> TRUE, services |-> services, routes |-> routes]
Good == Manifest(<<Service("auth", <<"/auth/Login">>)>>, <<>>)
MCFiles == {Manifest(s, r) : s \in BoundedSeq(MCServices, 2),
                             r \in BoundedSeq(MCRoutes, 2)}
           \cup {[Good EXCEPT !.schema = FALSE], [Good EXCEPT !.readable = FALSE]}
=============================================================================
