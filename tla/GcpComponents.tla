---------------------------- MODULE GcpComponents ---------------------------
(***************************************************************************)
(* The Google Cloud pipeline components that run in the launcher image,    *)
(* and the command-line entry points (launcher.py) they call.              *)
(*                                                                         *)
(* A component passes flags to an entry point: "passes" always, "may" when *)
(* an optional input is present (IfPresentPlaceholder); "outputs" are its  *)
(* output artifacts.  An entry point needs some flags, takes others        *)
(* (argparse.SUPPRESS: left out when not given) and has a default for the  *)
(* rest; it accepts one or more job types and calls its runner with every  *)
(* parsed argument.                                                        *)
(***************************************************************************)

LOCAL R == INSTANCE GcpRunners

DefaultArgs == R!DefaultArgs

QueryArgs == R!QueryArgs

EntryPoint(types, needs, runner) ==
    [types |-> types, needs |-> needs, takes |-> {}, defaults |-> {}, runner |-> runner]

Component(type, passes, outputs, main) ==
    [type |-> type, passes |-> passes, may |-> {}, outputs |-> outputs, main |-> main]

-----------------------------------------------------------------------------
\* The entry points, one for each launcher.py.

automl_image_main ==
    [EntryPoint({"AutoMLImageTrainingJob"}, {"executor_input", "gcp_resources", "location",
      "project", "type"}, R!create_image_training_pipeline) EXCEPT !.takes =
      {"base_model", "budget_milli_node_hours", "dataset", "disable_early_stopping",
      "display_name", "incremental_train_base_model", "is_default_version", "labels",
      "model_display_name", "model_encryption_spec_key_name", "model_labels",
      "model_type", "model_version_aliases", "model_version_description", "multi_label",
      "parent_model", "prediction_type", "test_filter_split", "test_fraction_split",
      "training_encryption_spec_key_name", "training_filter_split",
      "training_fraction_split", "validation_filter_split",
      "validation_fraction_split"}]

batch_prediction_job_main ==
    EntryPoint({"BatchPredictionJob"}, DefaultArgs \cup {"executor_input"},
      R!create_batch_prediction_job)

create_model_main ==
    EntryPoint({"BigqueryCreateModelJob"}, QueryArgs, R!bigquery_create_model_job)

detect_anomalies_model_main ==
    [EntryPoint({"BigqueryDetectAnomaliesModelJob"}, QueryArgs \cup {"anomaly_prob_threshold",
      "contamination", "model_name"}, R!bigquery_detect_anomalies_model_job) EXCEPT
      !.takes = {"query_statement", "table_name"}]

drop_model_main ==
    EntryPoint({"BigqueryDropModelJob"}, QueryArgs \cup {"model_name"},
      R!bigquery_drop_model_job)

evaluate_model_main ==
    [EntryPoint({"BigqueryEvaluateModelJob"}, QueryArgs \cup {"model_name", "threshold"},
      R!bigquery_evaluate_model_job) EXCEPT !.takes = {"query_statement", "table_name"}]

explain_forecast_model_main ==
    EntryPoint({"BigqueryExplainForecastModelJob"}, QueryArgs \cup {"confidence_level",
      "horizon", "model_name"}, R!bigquery_explain_forecast_model_job)

explain_predict_model_main ==
    [EntryPoint({"BigqueryExplainPredictModelJob"}, QueryArgs \cup {"model_name",
      "num_integral_steps", "threshold", "top_k_features"},
      R!bigquery_explain_predict_model_job) EXCEPT !.takes = {"query_statement",
      "table_name"}]

bigquery_export_model_main ==
    EntryPoint({"BigqueryExportModelJob"}, DefaultArgs \cup {"executor_input",
      "exported_model_path", "model_destination_path", "model_name"},
      R!bigquery_export_model_job)

feature_importance_main ==
    EntryPoint({"BigqueryMLFeatureImportanceJob"}, QueryArgs \cup {"model_name"},
      R!bigquery_ml_feature_importance_job)

forecast_model_main ==
    EntryPoint({"BigqueryMLForecastJob"}, QueryArgs \cup {"confidence_level", "horizon",
      "model_name"}, R!bigquery_forecast_model_job)

global_explain_main ==
    EntryPoint({"BigqueryMLGlobalExplainJob"}, QueryArgs \cup {"class_level_explain",
      "model_name"}, R!bigquery_ml_global_explain_job)

ml_advanced_weights_main ==
    EntryPoint({"BigqueryMLAdvancedWeightsJob"}, QueryArgs \cup {"model_name"},
      R!bigquery_ml_advanced_weights_job)

ml_arima_coefficients_main ==
    EntryPoint({"BigqueryMLArimaCoefficientsJob"}, QueryArgs \cup {"model_name"},
      R!bigquery_ml_arima_coefficients)

ml_arima_evaluate_main ==
    EntryPoint({"BigqueryMLArimaEvaluateJob"}, QueryArgs \cup {"model_name",
      "show_all_candidate_models"}, R!bigquery_ml_arima_evaluate_job)

ml_centroids_main ==
    EntryPoint({"BigqueryMLCentroidsJob"}, QueryArgs \cup {"model_name", "standardize"},
      R!bigquery_ml_centroids_job)

ml_confusion_matrix_main ==
    EntryPoint({"BigqueryMLConfusionMatrixJob"}, QueryArgs \cup {"model_name",
      "query_statement", "table_name", "threshold"}, R!bigquery_ml_confusion_matrix_job)

ml_feature_info_main ==
    EntryPoint({"BigqueryMLFeatureInfoJob"}, QueryArgs \cup {"model_name"},
      R!bigquery_ml_feature_info_job)

ml_principal_component_info_main ==
    EntryPoint({"BigqueryMLPrincipalComponentInfoJob"}, QueryArgs \cup {"model_name"},
      R!bigquery_ml_principal_component_info_job)

ml_principal_components_main ==
    EntryPoint({"BigqueryMLPrincipalComponentsJob"}, QueryArgs \cup {"model_name"},
      R!bigquery_ml_principal_components_job)

ml_recommend_main ==
    [EntryPoint({"BigqueryMLRecommendJob"}, QueryArgs \cup {"model_name"},
      R!bigquery_ml_recommend_job) EXCEPT !.takes = {"query_statement", "table_name"}]

ml_reconstruction_loss_main ==
    [EntryPoint({"BigqueryMLReconstructionLossJob"}, QueryArgs \cup {"model_name"},
      R!bigquery_ml_reconstruction_loss_job) EXCEPT !.takes = {"query_statement",
      "table_name"}]

ml_roc_curve_main ==
    [EntryPoint({"BigqueryMLRocCurveJob"}, QueryArgs \cup {"model_name"},
      R!bigquery_ml_roc_curve_job) EXCEPT !.takes = {"query_statement", "table_name",
      "thresholds"}]

ml_training_info_main ==
    EntryPoint({"BigqueryMLTrainingInfoJob"}, QueryArgs \cup {"model_name"},
      R!bigquery_ml_training_info_job)

ml_trial_info_main ==
    EntryPoint({"BigqueryMLTrialInfoJob"}, QueryArgs \cup {"model_name"},
      R!bigquery_ml_trial_info_job)

ml_weights_main ==
    EntryPoint({"BigqueryMLWeightsJob"}, QueryArgs \cup {"model_name"},
      R!bigquery_ml_weights_job)

predict_model_main ==
    EntryPoint({"BigqueryPredictModelJob"}, QueryArgs \cup {"model_name", "query_statement",
      "table_name", "threshold"}, R!bigquery_predict_model_job)

query_job_main == EntryPoint({"BigqueryQueryJob"}, QueryArgs, R!bigquery_query_job)

preview_custom_job_main == EntryPoint({"CustomJob"}, DefaultArgs, R!create_preview_custom_job)

custom_job_main == EntryPoint({"CustomJob"}, DefaultArgs, R!create_custom_job)

flex_template_main == EntryPoint({"DataflowJob"}, DefaultArgs, R!launch_flex_template)

dataflow_python_main ==
    [EntryPoint({}, {"gcp_resources", "location", "project", "python_module_path",
      "temp_location"}, R!create_python_job) EXCEPT !.takes = {"args",
      "requirements_file_path"}]

create_pyspark_batch_main ==
    EntryPoint({"DataprocPySparkBatch"}, DefaultArgs \cup {"batch_id"},
      R!create_pyspark_batch)

create_spark_batch_main ==
    EntryPoint({"DataprocSparkBatch"}, DefaultArgs \cup {"batch_id"}, R!create_spark_batch)

create_spark_r_batch_main ==
    EntryPoint({"DataprocSparkRBatch"}, DefaultArgs \cup {"batch_id"}, R!create_spark_r_batch)

create_spark_sql_batch_main ==
    EntryPoint({"DataprocSparkSqlBatch"}, DefaultArgs \cup {"batch_id"},
      R!create_spark_sql_batch)

create_endpoint_main ==
    EntryPoint({"CreateEndpoint"}, DefaultArgs \cup {"executor_input"}, R!create_endpoint)

delete_endpoint_main == EntryPoint({"DeleteEndpoint"}, DefaultArgs, R!delete_endpoint)

deploy_model_main == EntryPoint({"DeployModel"}, DefaultArgs, R!deploy_model)

undeploy_model_main == EntryPoint({"UndeployModel"}, DefaultArgs, R!undeploy_model)

hyperparameter_tuning_job_main ==
    [EntryPoint({"HyperparameterTuningJob", "HyperparameterTuningJobWithMetrics"},
      DefaultArgs, R!create_hyperparameter_tuning_job) EXCEPT !.defaults =
      {"execution_metrics"}]

infra_validation_job_main ==
    EntryPoint({"InfraValidationJob"}, DefaultArgs \cup {"executor_input"},
      R!create_infra_validation_job)

templated_custom_job_main ==
    [EntryPoint({"TemplatedCustomJob"}, DefaultArgs, R!create_templated_custom_job) EXCEPT
      !.takes = {"dry_run", "set_boolean", "set_float", "set_integer", "set_json",
      "set_string"}]

delete_model_main == EntryPoint({"DeleteModel"}, DefaultArgs, R!delete_model)

vertex_export_model_main ==
    EntryPoint({"ExportModel"}, DefaultArgs \cup {"output_info"}, R!export_model)

get_model_main ==
    [EntryPoint({}, {"executor_input"}, R!get_model) EXCEPT !.defaults = {"location",
      "model_name", "project"}]

upload_model_main ==
    [EntryPoint({"UploadModel"}, DefaultArgs \cup {"executor_input"}, R!upload_model) EXCEPT
      !.defaults = {"parent_model_name"}]

wait_gcp_resources_main == EntryPoint({"Wait"}, DefaultArgs, R!wait_gcp_resources)

-----------------------------------------------------------------------------
\* The components, one for each container component that runs a launcher.

model_get ==
    Component("", {"executor_input", "location", "model_name", "project"}, {"model"},
      get_model_main)

model_export ==
    Component("ExportModel", DefaultArgs \cup {"output_info"}, {},
      vertex_export_model_main)

model_upload ==
    [Component("UploadModel", DefaultArgs \cup {"executor_input"}, {"model"},
      upload_model_main) EXCEPT !.may = {"parent_model_name"}]

model_delete == Component("DeleteModel", DefaultArgs, {}, delete_model_main)

wait_gcp_resources == Component("Wait", DefaultArgs, {}, wait_gcp_resources_main)

dataflow_python ==
    Component("", {"args", "gcp_resources", "location", "project", "python_module_path",
      "requirements_file_path", "temp_location"}, {}, dataflow_python_main)

dataflow_flex_template == Component("DataflowJob", DefaultArgs, {}, flex_template_main)

automl_tabular_cv_trainer ==
    Component("CustomJob", DefaultArgs, {"tuning_result_output"}, custom_job_main)

automl_tabular_ensemble ==
    Component("CustomJob", DefaultArgs, {"explanation_metadata_artifact", "model",
      "model_architecture", "model_without_custom_ops", "unmanaged_container_model"},
      custom_job_main)

automl_tabular_finalizer == Component("CustomJob", DefaultArgs, {}, custom_job_main)

automl_tabular_stage_1_tuner ==
    Component("CustomJob", DefaultArgs, {"tuning_result_output"}, custom_job_main)

tabular_stats_and_example_gen ==
    Component("CustomJob", DefaultArgs, {"dataset_schema", "dataset_stats",
      "eval_split", "instance_baseline", "metadata", "test_split", "train_split"},
      custom_job_main)

automl_tabular_transform ==
    Component("CustomJob", DefaultArgs, {"materialized_eval_split",
      "materialized_test_split", "materialized_train_split", "training_schema_uri",
      "transform_output"}, custom_job_main)

prophet_trainer ==
    Component("CustomJob", DefaultArgs, {"evaluated_examples_directory",
      "unmanaged_container_model"}, custom_job_main)

automl_image_training_job ==
    [Component("AutoMLImageTrainingJob", {"dataset", "disable_early_stopping",
      "display_name", "executor_input", "gcp_resources", "labels", "location",
      "model_type", "multi_label", "prediction_type", "project",
      "resource_name_output_artifact_uri", "type"}, {"model"}, automl_image_main) EXCEPT
      !.may = {"base_model", "budget_milli_node_hours", "incremental_train_base_model",
      "is_default_version", "model_display_name", "model_encryption_spec_key_name",
      "model_labels", "model_version_aliases", "model_version_description",
      "parent_model", "test_filter_split", "test_fraction_split",
      "training_encryption_spec_key_name", "training_filter_split",
      "training_fraction_split", "validation_filter_split",
      "validation_fraction_split"}]

dataproc_create_spark_sql_batch ==
    Component("DataprocSparkSqlBatch", DefaultArgs \cup {"batch_id"}, {},
      create_spark_sql_batch_main)

dataproc_create_spark_batch ==
    Component("DataprocSparkBatch", DefaultArgs \cup {"batch_id"}, {},
      create_spark_batch_main)

dataproc_create_spark_r_batch ==
    Component("DataprocSparkRBatch", DefaultArgs \cup {"batch_id"}, {},
      create_spark_r_batch_main)

dataproc_create_pyspark_batch ==
    Component("DataprocPySparkBatch", DefaultArgs \cup {"batch_id"}, {},
      create_pyspark_batch_main)

hyperparameter_tuning_job ==
    Component("HyperparameterTuningJob", DefaultArgs, {},
      hyperparameter_tuning_job_main)

model_batch_predict ==
    Component("BatchPredictionJob", DefaultArgs \cup {"executor_input"},
      {"batchpredictionjob", "bigquery_output_table", "gcs_output_directory"},
      batch_prediction_job_main)

endpoint_delete == Component("DeleteEndpoint", DefaultArgs, {}, delete_endpoint_main)

model_deploy == Component("DeployModel", DefaultArgs, {}, deploy_model_main)

endpoint_create ==
    Component("CreateEndpoint", DefaultArgs \cup {"executor_input"}, {"endpoint"},
      create_endpoint_main)

model_undeploy == Component("UndeployModel", DefaultArgs, {}, undeploy_model_main)

bigquery_ml_reconstruction_loss_job ==
    Component("BigqueryMLReconstructionLossJob", QueryArgs \cup {"model_name",
      "query_statement", "table_name"}, {"destination_table"},
      ml_reconstruction_loss_main)

bigquery_ml_confusion_matrix_job ==
    Component("BigqueryMLConfusionMatrixJob", QueryArgs \cup {"model_name",
      "query_statement", "table_name", "threshold"}, {"confusion_matrix"},
      ml_confusion_matrix_main)

bigquery_ml_advanced_weights_job ==
    Component("BigqueryMLAdvancedWeightsJob", QueryArgs \cup {"model_name"},
      {"advanced_weights"}, ml_advanced_weights_main)

bigquery_predict_model_job ==
    Component("BigqueryPredictModelJob", QueryArgs \cup {"model_name",
      "query_statement", "table_name", "threshold"}, {"destination_table"},
      predict_model_main)

bigquery_detect_anomalies_job ==
    Component("BigqueryDetectAnomaliesModelJob", QueryArgs \cup
      {"anomaly_prob_threshold", "contamination", "model_name", "query_statement",
      "table_name"}, {"destination_table"}, detect_anomalies_model_main)

bigquery_ml_principal_component_info_job ==
    Component("BigqueryMLPrincipalComponentInfoJob", QueryArgs \cup {"model_name"},
      {"destination_table"}, ml_principal_component_info_main)

bigquery_export_model_job ==
    Component("BigqueryExportModelJob", DefaultArgs \cup {"executor_input",
      "exported_model_path", "model_destination_path", "model_name"}, {},
      bigquery_export_model_main)

bigquery_ml_centroids_job ==
    Component("BigqueryMLCentroidsJob", QueryArgs \cup {"model_name", "standardize"},
      {"centroids"}, ml_centroids_main)

bigquery_evaluate_model_job ==
    Component("BigqueryEvaluateModelJob", QueryArgs \cup {"model_name",
      "query_statement", "table_name", "threshold"}, {"evaluation_metrics"},
      evaluate_model_main)

bigquery_query_job ==
    Component("BigqueryQueryJob", QueryArgs, {"destination_table"}, query_job_main)

bigquery_explain_forecast_model_job ==
    Component("BigqueryExplainForecastModelJob", QueryArgs \cup {"confidence_level",
      "horizon", "model_name"}, {"destination_table"}, explain_forecast_model_main)

bigquery_ml_roc_curve_job ==
    Component("BigqueryMLRocCurveJob", QueryArgs \cup {"model_name", "query_statement",
      "table_name", "thresholds"}, {"roc_curve"}, ml_roc_curve_main)

bigquery_create_model_job ==
    Component("BigqueryCreateModelJob", QueryArgs, {"model"}, create_model_main)

bigquery_ml_training_info_job ==
    Component("BigqueryMLTrainingInfoJob", QueryArgs \cup {"model_name"},
      {"ml_training_info"}, ml_training_info_main)

bigquery_drop_model_job ==
    Component("BigqueryDropModelJob", QueryArgs \cup {"model_name"}, {},
      drop_model_main)

bigquery_ml_arima_evaluate_job ==
    Component("BigqueryMLArimaEvaluateJob", QueryArgs \cup {"model_name",
      "show_all_candidate_models"}, {"arima_evaluation_metrics"},
      ml_arima_evaluate_main)

bigquery_forecast_model_job ==
    Component("BigqueryMLForecastJob", QueryArgs \cup {"confidence_level", "horizon",
      "model_name"}, {"destination_table"}, forecast_model_main)

bigquery_explain_predict_model_job ==
    Component("BigqueryExplainPredictModelJob", QueryArgs \cup {"model_name",
      "num_integral_steps", "query_statement", "table_name", "threshold",
      "top_k_features"}, {"destination_table"}, explain_predict_model_main)

bigquery_ml_arima_coefficients ==
    Component("BigqueryMLArimaCoefficientsJob", QueryArgs \cup {"model_name"},
      {"arima_coefficients"}, ml_arima_coefficients_main)

bigquery_ml_weights_job ==
    Component("BigqueryMLWeightsJob", QueryArgs \cup {"model_name"}, {"weights"},
      ml_weights_main)

bigquery_ml_recommend_job ==
    Component("BigqueryMLRecommendJob", QueryArgs \cup {"model_name", "query_statement",
      "table_name"}, {"destination_table"}, ml_recommend_main)

bigquery_ml_trial_info_job ==
    Component("BigqueryMLTrialInfoJob", QueryArgs \cup {"model_name"}, {"trial_info"},
      ml_trial_info_main)

bigquery_ml_feature_info_job ==
    Component("BigqueryMLFeatureInfoJob", QueryArgs \cup {"model_name"},
      {"feature_info"}, ml_feature_info_main)

bigquery_ml_principal_components_job ==
    Component("BigqueryMLPrincipalComponentsJob", QueryArgs \cup {"model_name"},
      {"destination_table"}, ml_principal_components_main)

bigquery_ml_global_explain_job ==
    Component("BigqueryMLGlobalExplainJob", QueryArgs \cup {"class_level_explain",
      "model_name"}, {"destination_table"}, global_explain_main)

bigquery_ml_feature_importance_job ==
    Component("BigqueryMLFeatureImportanceJob", QueryArgs \cup {"model_name"},
      {"feature_importance"}, feature_importance_main)

automated_feature_engineering ==
    Component("CustomJob", DefaultArgs, {"feature_ranking", "materialized_data"},
      custom_job_main)

tabular_feature_ranking_and_selection ==
    Component("CustomJob", DefaultArgs, {"feature_ranking", "selected_features"},
      custom_job_main)

tabnet_hyperparameter_tuning_job ==
    Component("HyperparameterTuningJobWithMetrics", DefaultArgs \cup
      {"execution_metrics"}, {}, hyperparameter_tuning_job_main)

tabnet_trainer ==
    Component("CustomJob", DefaultArgs, {"unmanaged_container_model"}, custom_job_main)

automl_forecasting_ensemble ==
    Component("CustomJob", DefaultArgs, {"example_instance",
      "explanation_metadata_artifact", "model_architecture",
      "unmanaged_container_model"}, custom_job_main)

automl_forecasting_stage_1_tuner ==
    Component("CustomJob", DefaultArgs, {"tuning_result_output"}, custom_job_main)

automl_forecasting_stage_2_tuner ==
    Component("CustomJob", DefaultArgs, {"tuning_result_output"}, custom_job_main)

data_converter == Component("CustomJob", DefaultArgs, {"output_dir"}, custom_job_main)

custom_training_job == Component("CustomJob", DefaultArgs, {}, preview_custom_job_main)

error_analysis_annotation ==
    Component("CustomJob", {"gcp_resource", "location", "payload", "project", "type"},
      {}, custom_job_main)

private_model_batch_predict ==
    Component("CustomJob", {"location", "payload", "project", "type"},
      {"batchpredictionjob", "gcs_output_directory"}, custom_job_main)

feature_extractor_error_analysis ==
    Component("CustomJob", {"gcp_resource", "location", "payload", "project", "type"},
      {}, custom_job_main)

\* The two entry points whose callers are not components of this package.
infra_validation_caller ==
    Component("InfraValidationJob", DefaultArgs \cup {"executor_input"}, {},
      infra_validation_job_main)

templated_custom_job_caller ==
    [Component("TemplatedCustomJob", DefaultArgs, {}, templated_custom_job_main)
      EXCEPT !.may = {"set_boolean", "set_float", "set_integer", "set_json",
      "set_string"}]

\* Every component but private_model_batch_predict, which passes no gcp_resources
\* and so never gets past the argument parser.
AllComponents ==
    {model_get, model_export, model_upload, model_delete, wait_gcp_resources,
     dataflow_python, dataflow_flex_template, automl_tabular_cv_trainer,
     automl_tabular_ensemble, automl_tabular_finalizer, automl_tabular_stage_1_tuner,
     tabular_stats_and_example_gen, automl_tabular_transform, prophet_trainer,
     automl_image_training_job, dataproc_create_spark_sql_batch,
     dataproc_create_spark_batch, dataproc_create_spark_r_batch,
     dataproc_create_pyspark_batch, hyperparameter_tuning_job, model_batch_predict,
     endpoint_delete, model_deploy, endpoint_create, model_undeploy,
     bigquery_ml_reconstruction_loss_job, bigquery_ml_confusion_matrix_job,
     bigquery_ml_advanced_weights_job, bigquery_predict_model_job,
     bigquery_detect_anomalies_job, bigquery_ml_principal_component_info_job,
     bigquery_export_model_job, bigquery_ml_centroids_job,
     bigquery_evaluate_model_job, bigquery_query_job,
     bigquery_explain_forecast_model_job, bigquery_ml_roc_curve_job,
     bigquery_create_model_job, bigquery_ml_training_info_job,
     bigquery_drop_model_job, bigquery_ml_arima_evaluate_job,
     bigquery_forecast_model_job, bigquery_explain_predict_model_job,
     bigquery_ml_arima_coefficients, bigquery_ml_weights_job,
     bigquery_ml_recommend_job, bigquery_ml_trial_info_job,
     bigquery_ml_feature_info_job, bigquery_ml_principal_components_job,
     bigquery_ml_global_explain_job, bigquery_ml_feature_importance_job,
     automated_feature_engineering, tabular_feature_ranking_and_selection,
     tabnet_hyperparameter_tuning_job, tabnet_trainer, automl_forecasting_ensemble,
     automl_forecasting_stage_1_tuner, automl_forecasting_stage_2_tuner,
     data_converter, custom_training_job, error_analysis_annotation,
     feature_extractor_error_analysis, infra_validation_caller,
     templated_custom_job_caller}

=============================================================================
