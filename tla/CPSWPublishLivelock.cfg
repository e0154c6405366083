\* The GatewayConfiguration sets CONTROLLER_PUBLISH_SERVICE itself.
CONSTANTS
    StaleReads = FALSE
    ConfigEnvs <- MCConfigPublish
    MaxEdits <- MCMaxEdits
SPECIFICATION Spec
PROPERTY
    SpecConverges
