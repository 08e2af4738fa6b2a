------------------------------ MODULE MCServer ------------------------------
(* A small instance of Server for TLC: two extensions with pages, of which  *)
(* one's have a permission, and one with protected fields; both also        *)
(* register from register_routes.  A login key and a tenant's budget.       *)
EXTENDS Server

MCContributes ==
    <<{"permissions", "protected_fields", "admin_pages"}, {"contract", "admin_pages", "navigation"}>>

MCAtRoutes == <<{"admin_pages"}, {"permissions"}>>

MCGuarded == {1}
=============================================================================
