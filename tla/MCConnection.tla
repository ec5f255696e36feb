---------------------------- MODULE MCConnection ----------------------------
(* An instance of Connection: two handles, a few connection strings, each   *)
(* chosen for a path through connect, and a DSN.                            *)
EXTENDS Connection

MCUrlParts ==
    [ u \in {"couchbases://h2", "couchbases://h2?catalog=k", "bad:port"} |->
        [ ok |-> u # "bad:port", scheme |-> "couchbases", host |-> "h2",
          user |-> "w", password |-> "p", path |-> "/path", format |-> "",
          catalog |-> IF u = "couchbases://h2?catalog=k" THEN "k" ELSE "",
          query |-> u = "couchbases://h2?catalog=k" ] ]

MCDotted == [ v \in {"db.sc"} |-> <<"db", "sc">> ]

bad      == [ broken |-> "yes" ]
plain    == [ Driver |-> "d", Server |-> "h1", AuthMode |-> "ldap" ]
capella  == [ Driver |-> "d", Url |-> "couchbases://h2", ConnectToCapella |-> "yes",
              LoginTimeout |-> "30" ]
named    == [ Driver |-> "d", Url |-> "couchbases://h2?catalog=k", Database |-> "db" ]
halfway  == [ Driver |-> "d", DriverLog |-> "on", JWT |-> "t", SSLMode |-> "maybe" ]
jwt      == [ Driver |-> "d", AuthMode |-> "jwt", SSLMode |-> "yes", JWT |-> "t" ]
jwtless  == [ Driver |-> "d", AuthMode |-> "jwt", SSLMode |-> "yes" ]
filedsn  == [ FileDSN |-> "f" ]
scoped   == [ UID |-> "u", Scope |-> "db.sc", DriverLogFile |-> "other" ]

MCPiece == {bad, plain}
MCConnString == { <<capella>>, <<halfway>>, <<filedsn>>, <<scoped>>, <<named>> }
MCDsnFields ==
    [ n \in {"", "a"} |->
        IF n = "" THEN NoFields
        ELSE [ Description |-> "text", Username |-> "v", CollectLogs |-> "yes",
               Password |-> "__default__", Timeout |-> "30" ] ]
MCFirstKey == [ n \in {"", "a"} |-> "Description" ]
=============================================================================
