---------------------------- MODULE MCAssetDeploys ----------------------------
\* Small instances of AssetDeploys: build ids are numbers in the order of the
\* listing, and the deploys are numbers too.
EXTENDS AssetDeploys

\* Each deploy has a build id of its own, the times at which they start.
OwnTag == [d \in Deploys |-> d]
ByTime == [b \in Builds |-> b]

\* The builds served before the deploys.
Unserved == <<>>
Served == <<1>>
ServedTwo == <<1, 2>>

\* A second run of the job of a commit deploys the same tag again.
SameTag == [d \in Deploys |-> 1]
=============================================================================
