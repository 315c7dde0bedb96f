----------------------------- MODULE MCRollouts -----------------------------
EXTENDS Rollouts

Line(tool, onPlatform, howOften, many) ==
  [tool |-> tool, platform |-> onPlatform, rounds |-> howOften, replicas |-> many,
   keep |-> FALSE, left |-> FALSE, namespace |-> "active",
   workload |-> "deployment", name |-> "anchor"]

\* One line for each platform, the other ones vary it.
AllTools ==
  {[Line("scheduler", p, 2, 3) EXCEPT !.left = b] : p \in Platforms, b \in BOOLEAN}
    \union {Line("scheduler", "kubernetes", 1, 2),
            [Line("scheduler", "nomad", 1, 2) EXCEPT !.keep = TRUE],
            Line("k8s", "kubernetes", 2, 3),
            [Line("k8s", "kubernetes", 1, 2) EXCEPT !.namespace = "absent"],
            [Line("k8s", "kubernetes", 1, 2) EXCEPT !.namespace = "terminating", !.left = TRUE],
            [Line("k8s", "kubernetes", 1, 1) EXCEPT !.keep = TRUE],
            [Line("mesh", "kubernetes", 2, 2) EXCEPT !.namespace = "absent"]}
    \union {[Line("gitops", "kubernetes", 2, 1) EXCEPT !.workload = w, !.name = n] :
              w \in {"deployment", "configmap"}, n \in {"anchor", "pushed"}}
    \union {[Line("gitops", "kubernetes", 1, 1) EXCEPT !.name = n, !.left = TRUE] :
              n \in {"anchor", "pushed"}}

Down == {Line("k8s", "kubernetes", 1, 3)}

Kept == {[Line("gitops", "kubernetes", 1, 1) EXCEPT !.name = "pushed", !.left = TRUE]}

=============================================================================
