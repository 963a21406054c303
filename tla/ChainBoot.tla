------------------------------ MODULE ChainBoot ------------------------------
(***************************************************************************)
(* Which chain the app is on: the registry bundled by the build              *)
(* (lib/registry), the deployment's environment (lib/env.ts), what the         *)
(* browser learns of it (/api/env, lib/env-context.tsx), the gate and the      *)
(* wagmi provider that follow it, and the upstreams of the server's proxies.   *)
(*                                                                         *)
(* A variable NEXT_PUBLIC_X that the build sees is compiled into server and    *)
(* browser; one that only the server's environment has is seen by the server.  *)
(* DEFAULT_CHAIN_ID is read by validateEnv and /api/env and nowhere else.       *)
(*                                                                         *)
(* A chain id is a number; Unset, Blank and Junk are the other things a         *)
(* variable can be.                                                         *)
(***************************************************************************)
EXTENDS Integers, FiniteSets, Sequences, SequencesExt

CONSTANTS
  Committed,   \* generated.json as it is committed: a set of [chain, network]
  Registries,  \* registries a build may find: sets of [chain, network, retired, json]
  Pins,        \* NEXT_PUBLIC_DEFAULT_CHAIN_ID in the build
  Envs         \* environments of the server

VARIABLES
  server,  \* "source", "built", "serving", "refused"
  files,   \* the registry that the build found
  bundle,  \* generated.json
  pin,     \* NEXT_PUBLIC_DEFAULT_CHAIN_ID, as compiled in
  env,     \* the server's environment
  snap,    \* EnvProvider's snapshot
  wagmi,   \* the chain the EVM provider is mounted for
  read,    \* the last read made: by whom, of which chain, answered by which
  req      \* a request to the Solana RPC proxy

vars == <<server, files, bundle, pin, env, snap, wagmi, read, req>>

Unset == -1
Blank == -2
Junk == -3
NoChain == -4
NoRead == [by |-> "none", of |-> NoChain, from |-> NoChain]
NoReq == [left |-> <<>>, tried |-> <<>>, scan |-> FALSE, by |-> "none"]

BootTypeOK ==
  /\ server \in {"source", "built", "serving", "refused"}
  /\ files \in Registries \cup {{}} /\ bundle \subseteq [chain: Nat, network: STRING] /\ pin \in Pins
  /\ env \in Envs
  /\ snap.state \in {"none", "waiting", "ready", "failed"} /\ snap.chain \in Nat \cup {NoChain}
  /\ wagmi \in Nat \cup {NoChain}
  /\ read.by \in {"none", "evm", "sol", "market", "landing"}

Init ==
  /\ server = "source" /\ files = {} /\ bundle = Committed /\ pin \in Pins /\ env \in Envs
  /\ snap = [state |-> "none", chain |-> NoChain] /\ wagmi = NoChain
  /\ read = NoRead /\ req = NoReq

-----------------------------------------------------------------------------
(* The build.                                                              *)

(* loadRegistryInputs, buildCompoundChainConfigMap: entries without a chain.json *)
(* and retired ones are passed over.                                         *)
Surfaced(entries) == {e \in entries : e.json /\ ~e.retired}
Duplicate(entries) == \E e, f \in Surfaced(entries) : e # f /\ e.chain = f.chain

(* main of the prebuild script: whatever the loader throws, a duplicate included,  *)
(* is taken for a missing registry, and the committed file stays.             *)
Build(entries) ==
  /\ server = "source" /\ server' = "built" /\ files' = entries
  /\ bundle' = IF Duplicate(entries) THEN bundle
               ELSE {[chain |-> e.chain, network |-> e.network] : e \in Surfaced(entries)}
  /\ UNCHANGED <<pin, env, snap, wagmi, read, req>>

BuildAlone ==
  /\ server = "source" /\ server' = "built"
  /\ UNCHANGED <<files, bundle, pin, env, snap, wagmi, read, req>>

Known == {b.chain : b \in bundle}

(* The registry's choice: a testnet, else any chain but a real-testnet one.     *)
SafetyNet ==
  LET live == {b \in bundle : b.network # "real-testnet"}
      pool == IF live = {} THEN bundle ELSE live
      test == {b \in pool : b.network = "testnet"}
      from == {b.chain : b \in IF test = {} THEN pool ELSE test}
  IN CHOOSE c \in from : \A d \in from : c <= d

(* resolveDefaultChainId without a runtime chain: where NEXT_PUBLIC_... is v.    *)
Default(v) == IF v > 0 THEN v ELSE SafetyNet

BrowserDefault == Default(pin)
ServerDefault == Default(IF pin # Unset THEN pin ELSE env.pub)

-----------------------------------------------------------------------------
(* The server.                                                             *)

First(a, b) == IF a # Unset THEN a ELSE b

(* validateEnv, and DEFAULT_CONFIG as config.ts is loaded.                     *)
EnvIsValid ==
  LET raw == First(env.pub, env.rt)
  IN /\ env.prod => env.solana /\ raw # Unset
     /\ raw # Junk

Start ==
  /\ server = "built"
  /\ server' = IF EnvIsValid /\ bundle # {} /\ {BrowserDefault, ServerDefault} \subseteq Known
               THEN "serving" ELSE "refused"
  /\ UNCHANGED <<files, bundle, pin, env, snap, wagmi, read, req>>

(* GET /api/env: Number("") is 0.                                            *)
ApiEnv ==
  LET raw == First(pin, First(env.pub, env.rt))
  IN CASE raw = Blank -> 0 [] raw \in {Unset, Junk} -> NoChain [] OTHER -> raw

(* resolveRomeRpcUpstream                                                  *)
Upstream == IF env.up # NoChain THEN env.up ELSE ServerDefault

-----------------------------------------------------------------------------
(* The browser.                                                            *)
Still == UNCHANGED <<server, files, bundle, pin, env>>

(* A page is opened: the boot config, and one fetch of /api/env.               *)
Open ==
  /\ server = "serving" /\ snap.state = "none"
  /\ snap' = [state |-> "waiting", chain |-> NoChain]
  /\ wagmi' = BrowserDefault
  /\ Still /\ UNCHANGED <<read, req>>

(* The answer: RuntimeWagmiProvider is mounted again for its chain (chainFor).   *)
EnvReady ==
  /\ snap.state = "waiting"
  /\ snap' = [state |-> "ready", chain |-> ApiEnv]
  /\ wagmi' = IF ApiEnv \in Known THEN ApiEnv ELSE BrowserDefault
  /\ Still /\ UNCHANGED <<read, req>>

(* It fails, and nothing asks again.                                         *)
EnvFailed ==
  /\ snap.state = "waiting"
  /\ snap' = [state |-> "failed", chain |-> NoChain]
  /\ Still /\ UNCHANGED <<wagmi, read, req>>

Close ==
  /\ snap.state # "none"
  /\ snap' = [state |-> "none", chain |-> NoChain] /\ wagmi' = NoChain /\ req' = NoReq
  /\ Still /\ UNCHANGED read

(* ChainConfigGate: the app, or the page that says it is not built for its chain. *)
GateOpen == ~(snap.state = "ready" /\ snap.chain # NoChain /\ snap.chain \notin Known)

(* activeChainId, resolveProbeConfig                                        *)
Shown == IF snap.chain # NoChain THEN snap.chain ELSE BrowserDefault

(* Mutant: reads do not wait for the chain.                                  *)
ChainResolved_Always == TRUE
ChainResolved == snap.chain # NoChain

Note(by, of, from) ==
  /\ read' = [by |-> by, of |-> of, from |-> from]
  /\ Still /\ UNCHANGED <<snap, wagmi, req>>

Viewing == snap.state # "none" /\ GateOpen

(* POST /api/rome-rpc: the request goes on as it is, to the one upstream there is,  *)
(* whatever chain it is meant for; the answer comes back as it is.             *)
Proxied(by) == Note(by, Shown, Upstream)

(* The position queries of the lanes go through it; the EVM lane's client exists    *)
(* for the mounted chain only.                                                *)
ReadEvm == Viewing /\ ChainResolved /\ wagmi = Shown /\ Proxied("evm")
ReadSolana == Viewing /\ ChainResolved /\ Proxied("sol")

(* /api/market/[chainId] and the landing page read their chain directly.        *)
ReadMarket == Viewing /\ Shown \in Known /\ Note("market", Shown, Shown)
ReadLanding == server = "serving" /\ Note("landing", ServerDefault, ServerDefault)

-----------------------------------------------------------------------------
(* /api/solana-rpc.                                                         *)

(* resolveSolanaRpcTiers: none is listed twice.                             *)
Tiers(scan) ==
  LET indexed == IF env.indexed THEN <<"indexed">> ELSE <<>>
  IN CASE scan -> indexed \o <<"public">>
       [] ~scan /\ env.solana -> <<"self">> \o indexed \o <<"public">>
       [] OTHER -> <<"public">> \o indexed

Request(scan) ==
  /\ snap.state # "none" /\ req.left = <<>>
  /\ req' = [left |-> Tiers(scan), tried |-> <<>>, scan |-> scan, by |-> "none"]
  /\ Still /\ UNCHANGED <<snap, wagmi, read>>

(* A connection error, a timeout, 429 or 5xx: the next tier, or 502.            *)
TierFails ==
  /\ req.left # <<>>
  /\ req' = [req EXCEPT !.left = Tail(@), !.tried = Append(@, Head(req.left))]
  /\ Still /\ UNCHANGED <<snap, wagmi, read>>

(* Anything else is mirrored.                                                *)
TierAnswers ==
  /\ req.left # <<>>
  /\ req' = [req EXCEPT !.left = <<>>, !.tried = Append(@, Head(req.left)), !.by = Head(req.left)]
  /\ Still /\ UNCHANGED <<snap, wagmi, read>>

Next ==
  \/ BuildAlone \/ \E entries \in Registries : Build(entries)
  \/ Start \/ Open \/ EnvReady \/ EnvFailed \/ Close
  \/ ReadEvm \/ ReadSolana \/ ReadMarket \/ ReadLanding
  \/ \E scan \in BOOLEAN : Request(scan)
  \/ TierFails \/ TierAnswers

Spec == Init /\ [][Next]_vars

-----------------------------------------------------------------------------
(* Properties.                                                             *)

(* A lane asks for a position only of the chain that /api/env names, one that is     *)
(* bundled, and never before that has answered; then the provider is on its chain   *)
(* too, and an unknown one shows the gate (providers-evm.tsx, chain-config-gate.tsx, *)
(* usePositionQuery's enabled).  Which chain answers is ProxyFollows.            *)
PositionsAreDeployed ==
  /\ read.by \in {"evm", "sol"} => read.of = ApiEnv /\ read.of \in Known
  /\ Viewing /\ snap.state = "ready" => wagmi = Shown

(* The answer is of the chain meant, with two exceptions, which are the proxy's: an   *)
(* override names another; or DEFAULT_CHAIN_ID alone names the page's, and the        *)
(* proxy, which does not read it, asks the registry's choice (romeRpc.ts,            *)
(* config.ts).                                                             *)
ProxyFollows ==
  read.from # read.of =>
    /\ read.by \in {"evm", "sol"}
    /\ \/ env.up \notin {NoChain, read.of}
       \/ /\ env.up = NoChain /\ read.from = SafetyNet
          /\ pin = Unset /\ env.pub = Unset /\ env.rt = read.of

(* The chains the deployment works with, in whatever part of it.                 *)
InUse ==
  {BrowserDefault, ServerDefault}
  \cup {c \in {wagmi} : snap.state # "none"}
  \cup {c \in {Shown} : Viewing}
  \cup {c \in {read.of} : read.by # "none"}

(* Whatever the variables name, nobody is put on a chain that the registry has        *)
(* retired or has no chain.json of, if the build could load it; and on a real-testnet   *)
(* one, while there is another, only where a variable names it (loadRegistryInputs,     *)
(* buildCompoundChainConfigMap, resolveDefaultChainId, config.ts, chainFor, the gate).   *)
NetIsLive ==
  server = "serving" =>
    /\ files # {} /\ ~Duplicate(files) =>
         \A c \in InUse : \E e \in files : e.chain = c /\ e.json /\ ~e.retired
    /\ (\E b \in bundle : b.network # "real-testnet") =>
         \A c \in InUse \ {pin, env.pub, env.rt} :
           \E b \in bundle : b.chain = c /\ b.network # "real-testnet"

(* A scan never reaches the self-hosted node, no tier is asked twice, and a       *)
(* request fails only when all of its tiers have (api/solana-rpc).               *)
ScansStayOff ==
  /\ req.scan => "self" \notin ToSet(req.tried)
  /\ Cardinality(ToSet(req.tried)) = Len(req.tried)
  /\ req.left = <<>> /\ req.by = "none" /\ req # NoReq => ToSet(Tiers(req.scan)) = ToSet(req.tried)

BootIsRight == PositionsAreDeployed /\ ProxyFollows /\ NetIsLive /\ ScansStayOff
=============================================================================
