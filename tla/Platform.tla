-------------------------------- MODULE Platform --------------------------------
(***************************************************************************)
(* The parts that share no state with one another, side by side: a part     *)
(* takes a step only while every other is as it began, so that what is      *)
(* checked is each by itself, and all in one run.                          *)
(***************************************************************************)
EXTENDS Lifecycle, RateLimit, Authentication, Tenancy, Listing, Dashboard, Sending, Templates

platformVars ==
    <<lifecycleVars, rateVars, authVars, tenancyVars, listingVars, dashboardVars, sendingVars,
      body>>

PlatformInit ==
    /\ Init /\ RateInit /\ AuthInit /\ TenancyInit /\ ListingInit /\ DashboardInit /\ SendingInit
    /\ TemplatesInit

Part == {"lifecycle", "rate limit", "authentication", "tenancy", "listing", "dashboard",
         "sending", "templates"}

AsItBegan(part) ==
    CASE part = "lifecycle"      -> Init
      [] part = "rate limit"     -> RateInit
      [] part = "authentication" -> AuthInit
      [] part = "tenancy"        -> TenancyInit
      [] part = "listing"        -> ListingInit
      [] part = "dashboard"      -> DashboardInit
      [] part = "sending"        -> SendingInit
      [] part = "templates"      -> TemplatesInit

UnchangedPart(part) ==
    CASE part = "lifecycle"      -> UNCHANGED lifecycleVars
      [] part = "rate limit"     -> UNCHANGED rateVars
      [] part = "authentication" -> UNCHANGED authVars
      [] part = "tenancy"        -> UNCHANGED tenancyVars
      [] part = "listing"        -> UNCHANGED listingVars
      [] part = "dashboard"      -> UNCHANGED dashboardVars
      [] part = "sending"        -> UNCHANGED sendingVars
      [] part = "templates"      -> UNCHANGED body

Alone(part) == \A other \in Part \ {part} : AsItBegan(other) /\ UnchangedPart(other)

PlatformNext ==
    \/ Alone("lifecycle") /\ Next
    \/ Alone("rate limit") /\ RateNext
    \/ Alone("authentication") /\ AuthNext
    \/ Alone("tenancy") /\ TenancyNext
    \/ Alone("listing") /\ ListingNext
    \/ Alone("dashboard") /\ DashboardNext
    \/ Alone("sending") /\ SendingNext
    \/ Alone("templates") /\ TemplatesNext

(* Only the first has an obligation to go on.                              *)
PlatformSpec == PlatformInit /\ [][PlatformNext]_platformVars /\ Fairness

PlatformTypeOK ==
    /\ LifecycleTypeOK /\ RateTypeOK /\ AuthTypeOK /\ TenancyTypeOK /\ ListingTypeOK
    /\ DashboardTypeOK /\ SendingTypeOK /\ TemplatesTypeOK
=============================================================================
