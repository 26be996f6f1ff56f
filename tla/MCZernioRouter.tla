--------------------------- MODULE MCZernioRouter ---------------------------
(* The ids of the service's posts and of their events.                     *)
EXTENDS ZernioRouter

MCPosts == Proposals \X {"request"}
MCEventIds ==
    {"webhook", "status"} \X MCPosts \X
        {"post.published", "post.failed", "post.cancelled", "other", "missing"}
=============================================================================
