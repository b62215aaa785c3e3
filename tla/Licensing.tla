----------------------------- MODULE Licensing -----------------------------
(***************************************************************************)
(* What the license middleware (Program.cs) answers to a signed-in request *)
(* for a path that belongs to a module, by what the deployment has: the    *)
(* enforcement switched off, or switched on with no license file, with one *)
(* that is no signed license, or with a signed one.  A signed license is   *)
(* never looked into: the public key of LicenseService is a character      *)
(* short, its import throws, and no catch clause names that exception.     *)
(***************************************************************************)

Licenses == {"off", "none", "malformed", "signed"}

\* LicenseService.Validate: the status it returns, or that it throws.
Validate(license) ==
    CASE license = "off"       -> "bypass"
      [] license = "none"      -> "missing"
      [] license = "malformed" -> "invalid"
      [] license = "signed"    -> "throws"

\* The modules of the license Validate returns: "bypass" comes without one, and
\* so does every refusal.
LicensedModules(license) == {}

\* LicenseService.HasModule validates once more.
HasModule(license, module) ==
    Validate(license) = "bypass" /\ module \in LicensedModules(license)

\* The answer of the middleware: 500, 423 or 403, or none, when it lets the
\* request pass to its handler.
Middleware(license, module) ==
    CASE Validate(license) = "throws"                 -> "error"
      [] Validate(license) \in {"missing", "invalid"} -> "locked"
      [] Validate(license) = "bypass"                 ->
             IF HasModule(license, module) THEN "passes" ELSE "forbidden"
=============================================================================
