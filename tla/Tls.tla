-------------------------------- MODULE Tls --------------------------------
(***************************************************************************)
(* TLS configurations (src/src/tls.rs) built from three files while        *)
(* somebody replaces them, one file at a time, as a renewal of the         *)
(* certificates does.                                                      *)
(*                                                                         *)
(* server_config and client_config first look that all files exist, then   *)
(* read them in turn.  What a file holds is Missing, Malformed (the read   *)
(* or the PEM parse fails, or nothing of the kind wanted is in it), a      *)
(* generation of the material, or for the CA bundle also Foreign: PEM      *)
(* certificates of which none parses as X.509.                             *)
(***************************************************************************)
EXTENDS Integers

CONSTANTS
  Generation,  \* a certificate belongs to the key of its generation
  Missing, Malformed, Foreign, Nothing, Failed

FileName == {"cert", "key", "ca"}

Content(name) ==
  Generation \cup {Missing, Malformed} \cup IF name = "ca" THEN {Foreign} ELSE {}

\* The special values are what they stand for, and nothing else.
ASSUME TlsAssumption ==
  /\ Generation \cap {Missing, Malformed, Foreign, Nothing} = {}
  /\ Nothing \notin [FileName -> Generation \cup {Missing, Malformed, Foreign}]
  /\ {Nothing, Failed} \cap
       [role : {"server", "client"}, cert : Generation, key : Generation,
        roots : SUBSET Generation] = {}
  /\ Nothing \notin [role : {"server", "client"}, step : {"cert", "key", "ca"},
                     cert : Generation \cup {Nothing}, key : Generation \cup {Nothing}]
  /\ Nothing # Failed

VARIABLES
  files,  \* what the three files hold
  build,  \* the build under way, or Nothing: its role, step and what it read
  built,  \* what the last build returned: a configuration, Failed or Nothing
  quiet   \* history: what the files held all through that build, or Nothing

tlsVars == <<files, build, built, quiet>>

TlsInit ==
  /\ \E g \in Generation : files = [name \in FileName |-> g]
  /\ build = Nothing
  /\ built = Nothing
  /\ quiet = Nothing

\* Somebody writes one of the files anew (external).
Replace(name, content) ==
  /\ files[name] # content
  /\ files' = [files EXCEPT ![name] = content]
  /\ quiet' = Nothing
  /\ UNCHANGED <<build, built>>

Finish(result) == build' = Nothing /\ built' = result

\* validate_path for each path: not blank, and there is such a file.
ValidPaths(named) == named = FileName /\ \A name \in FileName : files[name] # Missing

\* A call of server_config or client_config, on a TlsConfig of which the
\* paths in named are not blank.
Begin(role, named) ==
  /\ build = Nothing
  /\ IF ValidPaths(named)
       THEN /\ build' = [role |-> role, step |-> "cert", cert |-> Nothing, key |-> Nothing]
            /\ built' = Nothing
            /\ quiet' = files
       ELSE Finish(Failed) /\ quiet' = Nothing
  /\ UNCHANGED files

LoadCerts ==
  /\ build # Nothing /\ build.step = "cert"
  /\ IF files["cert"] \in Generation
       THEN build' = [build EXCEPT !.step = "key", !.cert = files["cert"]] /\ UNCHANGED built
       ELSE Finish(Failed)
  /\ UNCHANGED <<files, quiet>>

LoadPrivateKey ==
  /\ build # Nothing /\ build.step = "key"
  /\ IF files["key"] \in Generation
       THEN build' = [build EXCEPT !.step = "ca", !.key = files["key"]] /\ UNCHANGED built
       ELSE Finish(Failed)
  /\ UNCHANGED <<files, quiet>>

\* load_ca: what does not parse as X.509 is left out of the root store.
RootsOf(content) == IF content = Foreign THEN {} ELSE {content}

CaLoads(content) == content \in Generation \cup {Foreign}

\* Faulty variant: rustls is not asked whether key and certificate match.
RustlsTakesAnyKey(role, cert, key, roots) == role = "server" => roots # {}

\* What rustls itself refuses (external): a client verifier without roots, a
\* key that is not the certificate's.
RustlsAccepts(role, cert, key, roots) ==
  /\ role = "server" => roots # {}
  /\ cert = key

\* load_ca and the rest of the build, which reads no file.
LoadCa ==
  /\ build # Nothing /\ build.step = "ca"
  /\ LET roots == RootsOf(files["ca"]) IN
     IF CaLoads(files["ca"]) /\ RustlsAccepts(build.role, build.cert, build.key, roots)
       THEN Finish([role |-> build.role, cert |-> build.cert, key |-> build.key,
                    roots |-> roots])
       ELSE Finish(Failed)
  /\ UNCHANGED <<files, quiet>>

TlsNext ==
  \/ \E name \in FileName : \E content \in Content(name) : Replace(name, content)
  \/ \E role \in {"server", "client"}, named \in SUBSET FileName : Begin(role, named)
  \/ LoadCerts \/ LoadPrivateKey \/ LoadCa

TlsSpec == TlsInit /\ [][TlsNext]_tlsVars

----------------------------------------------------------------------------
(* Properties.                                                             *)

\* Whatever is replaced between the look at the paths and the three reads,
\* server_config and client_config never return a certificate with the key
\* of another generation, and a server's verifier never comes without roots.
\* A build during which no file was replaced has used exactly what the files
\* hold, and fails only if they do not go together.
BuiltIsCoherent ==
  /\ built \notin {Nothing, Failed} =>
       built.cert = built.key /\ (built.role = "server" => built.roots # {})
  /\ (quiet # Nothing /\ built # Nothing) =>
       IF built = Failed
         THEN ~ \E g \in Generation :
                  quiet["cert"] = g /\ quiet["key"] = g /\ quiet["ca"] \in Generation
         ELSE /\ built.cert = quiet["cert"] /\ built.key = quiet["key"]
              /\ built.roots = RootsOf(quiet["ca"])

============================================================================
