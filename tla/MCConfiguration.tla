---------------------------- MODULE MCConfiguration ----------------------------
(* An instance of Configuration for TLC: for every scheme and host the plain *)
(* origin, each host under a port, and one URL for each part that a base URL *)
(* must not have.                                                            *)
EXTENDS Configuration

URL(scheme, host, extra) == [scheme |-> scheme, host |-> host, extra |-> extra]

MCBaseURLs ==
    {URL(s, h, "nothing") : s \in Schemes, h \in Hosts}
    \cup {URL("https", h, "port") : h \in {"production", "integration", "local"}}
    \cup {URL("http", "local", e) : e \in Extras}
================================================================================
