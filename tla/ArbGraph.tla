------------------------------- MODULE ArbGraph -------------------------------
(***************************************************************************)
(* Which cycles the bot trades (graph.rs): the pools of the working set    *)
(* become edges between tokens, a pool of several tokens an edge for each  *)
(* pair, and a depth-first search from WETH lists the ways back to it.     *)
(* The graph grows by one pool at a time, and the search is repeated on    *)
(* each graph, so that every working set is looked at.                     *)
(***************************************************************************)
EXTENDS Naturals, Sequences, FiniteSets

CONSTANTS
    WETH,
    MAX_HOPS,   \* at least the 2 that generate_cycles searches with
    Pools       \* [address, type, tokens, funded]: funded are the tokens with a balance

ASSUME GraphAssumption ==
    /\ MAX_HOPS \in Nat /\ MAX_HOPS >= 2
    /\ \A p \in Pools : p.funded \subseteq p.tokens /\ IsFiniteSet(p.tokens)

VARIABLES
    working_pools,  \* the pools in the graph
    edges

graphVars == <<working_pools, edges>>

Pairs(tokens) == {ends \in SUBSET tokens : Cardinality(ends) = 2}
EdgesAmong(p, tokens) == {[pool |-> p, ends |-> ends] : ends \in Pairs(tokens)}

\* A mutant that takes all pairs of a Balancer pool.
MutantAllPairs(p) == EdgesAmong(p, p.tokens)
add_balancer_pool(p) == EdgesAmong(p, p.funded)
\* The comments at graph.rs:108 and 111 speak of balances; the code looks at none.
add_curve_pool(p)    == EdgesAmong(p, p.tokens)
add_simple_pool(p)   == EdgesAmong(p, p.tokens)

EdgesOf(p) ==
    IF p.type = "BalancerV2" THEN add_balancer_pool(p)
    ELSE IF p.type = "CurveTriCrypto" THEN add_curve_pool(p)
    ELSE add_simple_pool(p)

GraphInit == working_pools = {} /\ edges = {}

AddPool(p) ==
    /\ working_pools' = working_pools \cup {p}
    /\ edges' = edges \cup EdgesOf(p)

GraphNext == \E p \in Pools \ working_pools : AddPool(p)

GraphSpec == GraphInit /\ [][GraphNext]_graphVars

-----------------------------------------------------------------------------
(* construct_cycles. *)

current_node(path) == IF path = <<>> THEN WETH ELSE path[Len(path)].token_out

\* The nodes pushed onto the current path and not yet popped.
visited(path) == {path[i].token_out : i \in DOMAIN path}

Swap(p, x, y) == [pool |-> p, token_in |-> x, token_out |-> y]

\* The swaps that leave the current node, one for each edge.
StepsFrom(path) ==
    LET here == current_node(path)
    IN  UNION {{Swap(e.pool, here, next) : next \in e.ends \ {here}} :
                  e \in {e \in edges : here \in e.ends}}

\* A mutant that lets a pool close a cycle whatever its protocol.
MutantAnyType(path, step) == path # <<>>
\* A cycle of two swaps has two protocols.
MayClose(path, step) ==
    Len(path) >= 2 \/ (Len(path) = 1 /\ path[1].pool.type # step.pool.type)

Closing(path) == {s \in StepsFrom(path) : s.token_out = WETH /\ MayClose(path, s)}
Onward(path)  == {s \in StepsFrom(path) : s.token_out \notin visited(path) \cup {WETH}}

\* The paths that the search comes by, by the calls that are open: it pushes each swap that
\* leads on, goes on from there and pops it.
current_paths[hops \in 0..MAX_HOPS] ==
    IF hops = 0 THEN {<<>>}
    ELSE UNION {{Append(path, s) : s \in Onward(path)} : path \in current_paths[hops - 1]}

construct_cycles(max_hops) ==
    UNION {UNION {{Append(path, s) : s \in Closing(path)} : path \in current_paths[hops]} :
              hops \in 0..max_hops - 1}

generate_cycles == construct_cycles(2)

-----------------------------------------------------------------------------
(* Properties. *)

\* The swaps the pools of the working set offer; of Balancer those with two balances.
Offered ==
    UNION {LET tokens == IF p.type = "BalancerV2" THEN p.funded ELSE p.tokens
           IN  UNION {{Swap(p, x, y) : y \in tokens \ {x}} : x \in tokens} :
              p \in working_pools}

SimpleCycle(c) ==
    /\ c[1].token_in = WETH /\ c[Len(c)].token_out = WETH
    /\ \A i \in 1..Len(c) - 1 : c[i].token_out = c[i + 1].token_in
    /\ \A i, j \in DOMAIN c : i # j => c[i].token_in # c[j].token_in
    /\ Len(c) = 2 => c[1].pool.type # c[2].pool.type

\* The search finds each simple cycle through WETH of two to max_hops swaps on offer whose
\* pools differ in protocol if they are two, and nothing else, for every working set.
CyclesExact ==
    \A n \in 0..MAX_HOPS :
        construct_cycles(n) =
            {c \in UNION {[1..k -> Offered] : k \in 2..n} : SimpleCycle(c)}

\* The calculator lets all steps of a cycle read the state before the first swap: no pool
\* may be used twice.  And an imbalance can be traded either way: with a cycle comes its
\* reverse.
CyclesUsable ==
    \A c \in generate_cycles :
        /\ c[1].pool # c[2].pool
        /\ <<Swap(c[2].pool, WETH, c[2].token_in), Swap(c[1].pool, c[1].token_out, WETH)>>
               \in generate_cycles

=============================================================================
