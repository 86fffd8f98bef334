SPECIFICATION Spec
CONSTANTS
  Requests = {r1, r2}
  Deployments <- MCDeployments
  Local = {"g2"}
  Claude = {"c1", "c2"}
  Anthropic = {"c1", "c2"}
  Fallbacks <- MCFallbacks
  ContextFallbacks <- MCContextFallbacks
  DefaultFallbacks <- MCDefaultFallbacks
  Primary = {"claude"}
  CatchAll = TRUE
  Preferred <- MCPreferred
  LastResorts <- MCLastResorts
  Enabled <- MCEnabled
  Clients <- MCClients
  SystemTokens = 500
  Window <- MCWindow
  ParamMax <- MCParamMax
  OutputCap <- MCOutputCap
  Retries <- MCRetries
  Ttls = {1, 2}
  MaxFallbacks = 5
INVARIANTS HopsLimited CallIntact
PROPERTIES QuotaRespected RequestEnds
